---- MODULE Spec2Model ----
(***************************************************************************)
(* PyDynDS: the control plane of the DynDCOP simulator.                    *)
(*                                                                         *)
(*  Spec     SimulationController (SimulationController.py) together with  *)
(*           the control threads of the Model objects it constructs        *)
(*           (Model/Model.py).                                             *)
(*  FairSpec Spec with weak fairness of every thread that the program      *)
(*           starts (Model._model_control), for the liveness claims.       *)
(*  AlgSpec  one Algorithm worker (Algorithms/Algorithm.py on top of       *)
(*           common/pydyndsProcess.py): its control thread, and a domain   *)
(*           thread that calls send_message, _send_message and get_stats.  *)
(*  StatsSpec the stats of one Algorithm worker as objects in memory: the  *)
(*           domain thread runs _send_message statement by statement, the  *)
(*           control thread and the model request thread call get_stats,   *)
(*           and the holders of the copies change them.                    *)
(*  UpdateSpec one Model (Model/Model.py) whose model thread runs          *)
(*           Model.run: the update step _update on drawn inputs.           *)
(*  ReplySpec one Model whose control thread answers CURRENT_STATE while   *)
(*           its owner changes currentDCOP and the receivers change the    *)
(*           replies.                                                      *)
(*  RunSpec  one Algorithm worker whose control thread serves START, STOP, *)
(*           PAUSE, RESUME and STATS while its domain loop (run) runs      *)
(*           cycles against the Simulator channels.                        *)
(*  FairRunSpec RunSpec with weak fairness of the worker's two threads.    *)
(*  ConstructSpec one Algorithm worker under construction: the rest of     *)
(*           __init__ beside the control thread it has started.            *)
(*                                                                         *)
(* Python's None is the string "None" for a value and the reference 0 for  *)
(* an object; the members of request_messages are written by their keys    *)
(* ("START" for request_messages['START']).                                *)
(***************************************************************************)
EXTENDS Integers, Sequences, FiniteSets, TLC

(***************************************************************************)
(* Bounds of the model.                                                    *)
(***************************************************************************)
\* how many times _init may create a batch of queues (construction included)
MaxGen == 2
\* how many Model objects setup may construct in one run
MaxModels == 2
\* how many calls of send_message and _send_message the domain thread makes
MaxSends == 2
\* how many control requests are sent to the Algorithm worker
MaxRequests == 3
\* the depth at which the interpreter raises RecursionError
RecursionLimit == 3
\* how many calls of get_stats the other threads make
MaxSnapshots == 2
\* how many times the run loop of a Model calls _update
MaxUpdates == 2
\* how many cycles of Algorithm.run the domain loop begins
MaxCycles == 2
\* how many requests the Model sends to the Algorithm worker
MaxModelRequests == 2

(***************************************************************************)
(* Values.                                                                 *)
(***************************************************************************)
None == "None"
\* the reference None; objects are referred to by their index (1, 2, ...)
NoneRef == 0

\* SimulationController.states
states == {"STOPPED", "SETUP", "RUNNING", "PAUSED"}

\* common/SimulatorMessages.py: the keys of request_messages
request_messages ==
    {"STOP", "START", "PAUSE", "RESUME", "CURRENT_STATE", "SUCCESS", "STATS"}

\* the queue attributes of the controller that _init creates
QueueFields ==
    {"algorithm_input_queue", "algorithm_output_queue", "algorithm_control_queue",
     "simulator_input_queue", "simulator_output_queue",
     "model_input_queue", "model_output_queue"}

\* A Queue object is named by the batch that created it and the attribute it
\* was first stored in; two Queue() calls never give the same object.
QueueIds == (1..MaxGen) \X QueueFields

\* the keyword arguments setup passes to Algorithm.factory
alg_kwargs ==
    {"simulator", "simulator_request_queue", "simulator_response_queue",
     "model_request_queue", "model_response_queue", "control_queue", "initialDCOP"}

\* the parameters of SampleAlgorithm.__init__ (the variant Algorithm.py ships)
SampleAlgorithmParams ==
    {"algorithm_input_queue", "algorithm_output_queue",
     "simulator_input_queue", "simulator_output_queue",
     "model_input_queue", "model_output_queue",
     "simulator_message_event", "model_message_event",
     "controller_message_event", "initialDCOP"}

\* Algorithm.__subclasses__(): the variants registered when factory runs, each
\* with the keyword parameters its constructor takes.  SampleAlgorithm is
\* always there; "PluggedAlgorithm" stands for a variant plugged in by the
\* user whose constructor takes the keyword set that setup passes.
subclass_names ==
    [SampleAlgorithm |-> SampleAlgorithmParams, PluggedAlgorithm |-> alg_kwargs]

\* inputs of send_message: a source node, another node as destination, and
\* an opaque payload
Nodes == {"v1", "v2"}
Payloads == {"data"}
SendArgs == {a \in Nodes \X Nodes \X Payloads : a[1] # a[2]}

\* None where a Message may stand
NoneMsg == <<>>

\* the threads of an Algorithm worker: the one that runs the algorithm, the
\* control thread (pydyndsProcess._control) and model_request_thread
Threads == {"domain", "control", "model_request"}
\* the threads that call get_stats (lines 92 and 229)
Readers == {"control", "model_request"}

\* inputs of setup
AlgorithmNames == {"SampleAlgorithm", "PluggedAlgorithm", "NoSuchAlgorithm"}
DynDCOPs == {None, "dyn"}
Delays == {0}

(***************************************************************************)
(* State.                                                                  *)
(***************************************************************************)
VARIABLES
    current_state,  \* SimulationController.current_state
    running,        \* SimulationController.running
    paused,         \* SimulationController.paused
    finished,       \* SimulationController.finished
    algorithm,      \* SimulationController.algorithm: NoneRef or an index of algorithms
    simulator,      \* SimulationController.simulator: NoneRef or the number of the Simulator
    model,          \* SimulationController.model: NoneRef or an index of models
    cq,             \* the controller's queue attributes: QueueFields -> QueueIds
    gen,            \* number of queue batches created so far
    queues,         \* contents of every Queue object
    models,         \* the Model objects constructed so far (each runs a thread)
    algorithms,     \* the Algorithm objects the factory constructed so far
    ctl,            \* position of the thread that calls the controller
    call,           \* the lifecycle call made last, and how it ended
    putLog          \* every put so far: <<who, request, queue>>

ctlVars == <<current_state, running, paused, finished, algorithm, simulator,
             model, cq, gen, queues, models, algorithms, ctl, call, putLog>>

VARIABLES
    stats,              \* Algorithm.stats
    pause_lock,         \* pydyndsProcess.pause_lock (an RLock): owner and count
    _stop,              \* pydyndsProcess._stop
    done,               \* Algorithm.done
    simulation_thread,  \* state of Algorithm.simulation_thread
    _input_queue,       \* pydyndsProcess._input_queue (contents)
    _output_queue,      \* pydyndsProcess._output_queue (contents)
    _message_event,     \* pydyndsProcess._message_event (set or not)
    control_thread,     \* state of pydyndsProcess.control_thread
    acall,              \* the call the domain thread made last, and how it ended
    sends,              \* the calls of send_message and _send_message so far
    nrequests           \* how many control requests were sent so far

algVars == <<stats, pause_lock, _stop, done, simulation_thread, _input_queue,
             _output_queue, _message_event, control_thread, acall, sends,
             nrequests>>

\* The objects of the interpreter that the claims about copies need by
\* identity (dicts, lists, Message objects): heap[a] is the object at address a.
VARIABLES
    heap

memVars == <<heap>>

\* the stats of one Algorithm worker, as objects, and the threads that use them
VARIABLES
    self_stats,     \* Algorithm.stats: the address of the dict
    stats_lock,     \* Algorithm.stats_lock (an RLock): owner and count
    pc,             \* where each thread of the worker stands (a line number)
    the_message,    \* _send_message: its local new_message (an address)
    snapshots,      \* the values get_stats returned so far: who asked, address
    touched,        \* the copies (indices of snapshots) their holders changed
    nsend           \* how many calls of _send_message were begun

stVars == <<self_stats, stats_lock, pc, the_message, snapshots, touched, nsend>>

\* one Model object on its own, its model thread and the requester of its
\* current state
VARIABLES
    mdl,                    \* the attributes of the Model
    model_thread,           \* state of Model.model_thread (which runs Model.run)
    upd,                    \* the call of _update made last, and how it ended
    model_request_queue,    \* contents of Model._model_request_queue
    sent,                   \* what was put on Model._model_response_queue so far
    rtouched                \* the replies (indices of sent) their receiver changed

mdVars == <<mdl, model_thread, upd, model_request_queue, sent, rtouched>>

\* the domain loop of an Algorithm worker (Algorithm.run on simulation_thread),
\* its channels to the Simulator and to the Model, and model_request_thread
VARIABLES
    cls,                        \* the class of the worker (it supplies Run)
    _DCOP_view,                 \* Algorithm._DCOP_view
    self_running,               \* Algorithm.running
    rpc,                        \* where simulation_thread stands in run (a line)
    ncycles,                    \* how many cycles of the loop were begun
    cycle_log,                  \* the steps of the current cycle made so far
    _simulator_input_queue,     \* contents of Algorithm._simulator_input_queue
    _simulator_output_queue,    \* contents of Algorithm._simulator_output_queue
    _simulator_message_event,   \* Algorithm._simulator_message_event (set or not)
    _model_input_queue,         \* contents of Algorithm._model_input_queue
    _model_output_queue,        \* contents of Algorithm._model_output_queue
    _model_message_event,       \* Algorithm._model_message_event (set or not)
    model_request_thread,       \* state of Algorithm.model_request_thread
    nmodel_requests             \* how many requests of the Model were sent so far

runVars == <<cls, _DCOP_view, self_running, rpc, ncycles, cycle_log,
             _simulator_input_queue, _simulator_output_queue,
             _simulator_message_event, _model_input_queue, _model_output_queue,
             _model_message_event, model_request_thread, nmodel_requests>>

\* the construction of an Algorithm worker (Algorithm.__init__ on top of
\* pydyndsProcess.__init__), which starts the control thread before it ends
VARIABLES
    ipc     \* where the constructing thread stands in __init__ (a line)

initVars == <<ipc>>

vars == <<ctlVars, algVars, memVars, stVars, mdVars, runVars, initVars>>

(***************************************************************************)
(* Queue operations (multiprocessing.Queue, unbounded).                    *)
(***************************************************************************)
put(qs, q, item) == [qs EXCEPT ![q] = Append(@, item)]

RECURSIVE putAll(_, _)
\* a sequence of puts <<queue, item>>, in order
putAll(qs, items) ==
    IF items = <<>> THEN qs
    ELSE putAll(put(qs, Head(items)[1], Head(items)[2]), Tail(items))

Range(s) == {s[i] : i \in DOMAIN s}

\* the log entries of a sequence of puts made by `who`
Logged(who, items) == {<<who, it[2], it[1]>> : it \in Range(items)}

(***************************************************************************)
(* Objects in memory.  A dict, a list and a Message are objects with an    *)
(* address; an attribute or an item that holds one of them holds its       *)
(* address.  Numbers, strings and None are values.                         *)
(***************************************************************************)
\* the dict of Algorithm.__init__ (lines 61-62), given its two lists
stats_dict_mut_one_message(messages, computations) ==
    [type |-> "dict", total_messages |-> 1, total_computations |-> 0,
     last_message |-> NoneRef, last_computation |-> NoneRef,
     unread_messages |-> messages, unread_computations |-> computations]

stats_dict(messages, computations) ==
    [type |-> "dict", total_messages |-> 0, total_computations |-> 0,
     last_message |-> NoneRef, last_computation |-> NoneRef,
     unread_messages |-> messages, unread_computations |-> computations]

list_object(items) == [type |-> "list", items |-> items]

\* Message.Message(source, destination, data) as an object
Message_object(source, destination, data) ==
    [type |-> "Message", source |-> source, destination |-> destination,
     data |-> data]

\* the objects that `self.stats = {...}` creates when n objects exist: the
\* dict at n + 1 and its two empty lists
new_stats(n) == <<stats_dict(n + 2, n + 3), list_object(<<>>), list_object(<<>>)>>

\* the addresses an object holds
Refs(o) ==
    IF o.type = "dict"
    THEN {o.last_message, o.last_computation, o.unread_messages,
          o.unread_computations} \ {NoneRef}
    ELSE IF o.type = "list" THEN Range(o.items)
    ELSE {}

\* the addresses that can be reached from the addresses of `seen`
RECURSIVE Reach(_, _)
Reach(h, seen) ==
    LET more == UNION {Refs(h[a]) : a \in seen} \ seen
    IN  IF more = {} THEN seen ELSE Reach(h, seen \cup more)

\* the object o with every address a that it holds replaced by memo[a]
Rebind(o, memo) ==
    IF o.type = "dict"
    THEN [o EXCEPT !.last_message = memo[o.last_message],
                   !.last_computation = memo[o.last_computation],
                   !.unread_messages = memo[o.unread_messages],
                   !.unread_computations = memo[o.unread_computations]]
    ELSE IF o.type = "list"
    THEN [o EXCEPT !.items = [i \in DOMAIN o.items |-> memo[o.items[i]]]]
    ELSE o

\* copy.deepcopy(r) in memory h: every object that can be reached from r is
\* copied once to a new address (deepcopy's memo), and the copies refer to
\* each other as the originals do.  Gives the new memory and the address of
\* the copy; None is copied to None.
copy_deepcopy_mut_alias(h, r) == [heap |-> h, ref |-> r]

copy_deepcopy(h, r) ==
    IF r = NoneRef THEN [heap |-> h, ref |-> NoneRef]
    ELSE LET old == Reach(h, {r})
             memo == [a \in old \cup {NoneRef} |->
                        IF a = NoneRef THEN NoneRef
                        ELSE Len(h) + Cardinality({b \in old : b <= a})]
             copies == [k \in 1..Cardinality(old) |->
                          Rebind(h[CHOOSE a \in old : memo[a] = Len(h) + k], memo)]
         IN  [heap |-> h \o copies, ref |-> memo[r]]

\* what can be read through address r: the value of the object and of
\* everything it refers to
RECURSIVE ValueOf(_, _)
ValueOf(h, r) ==
    IF r = NoneRef THEN <<>>
    ELSE LET o == h[r]
         IN  IF o.type = "dict"
             THEN <<o.total_messages, o.total_computations,
                    ValueOf(h, o.last_message), ValueOf(h, o.last_computation),
                    ValueOf(h, o.unread_messages),
                    ValueOf(h, o.unread_computations)>>
             ELSE IF o.type = "list"
             THEN [i \in DOMAIN o.items |-> ValueOf(h, o.items[i])]
             ELSE <<o>>

(***************************************************************************)
(* SimulationController._init                                              *)
(***************************************************************************)
\* the values _init gives to the attributes, when it creates batch g of queues
_init_mut_keeps_control_queue(g) ==
    [current_state |-> "STOPPED", running |-> FALSE, paused |-> FALSE,
     finished |-> FALSE, algorithm |-> NoneRef, simulator |-> NoneRef,
     model |-> NoneRef,
     cq |-> [f \in QueueFields |->
               IF f = "algorithm_control_queue" THEN <<1, f>> ELSE <<g, f>>]]

_init(g) ==
    [current_state |-> "STOPPED", running |-> FALSE, paused |-> FALSE,
     finished |-> FALSE, algorithm |-> NoneRef, simulator |-> NoneRef,
     model |-> NoneRef,
     cq |-> [f \in QueueFields |-> <<g, f>>]]

Returned(op, pre, puts) ==
    [op |-> op, pre |-> pre, status |-> "returned", exc |-> "none",
     named |-> "none", puts |-> puts, gen |-> gen, value |-> NoneRef]

\* a call that returns an object (its address)
ReturnedValue(op, pre, value) ==
    [op |-> op, pre |-> pre, status |-> "returned", exc |-> "none",
     named |-> "none", puts |-> <<>>, gen |-> gen, value |-> value]

Raised(op, pre, exc, named) ==
    [op |-> op, pre |-> pre, status |-> "raised", exc |-> exc,
     named |-> named, puts |-> <<>>, gen |-> gen, value |-> NoneRef]

Pending(op, pre, puts) ==
    [op |-> op, pre |-> pre, status |-> "pending", exc |-> "none",
     named |-> "none", puts |-> puts, gen |-> gen, value |-> NoneRef]

(***************************************************************************)
(* Algorithm.__init__ on top of pydyndsProcess.__init__                    *)
(***************************************************************************)
\* Message.Message(source, destination, data)
Message(source, destination, data) == <<"Message", source, destination, data>>

AlgorithmInit ==
    /\ stats = [total_messages |-> 0, total_computations |-> 0,
                last_message |-> NoneMsg, last_computation |-> NoneMsg,
                unread_messages |-> <<>>, unread_computations |-> <<>>]
    /\ pause_lock = [owner |-> "none", count |-> 0]
    /\ _stop = FALSE
    /\ done = FALSE
    /\ simulation_thread = "created"
    /\ _input_queue = <<>>
    /\ _output_queue = <<>>
    /\ _message_event = FALSE
    /\ control_thread = "running"
    /\ acall = [op |-> "__init__", args |-> <<>>, status |-> "returned",
                exc |-> "none", value |-> NoneMsg]
    /\ sends = <<>>
    /\ nrequests = 0

\* Algorithm.__init__, lines 43-66: the worker as constructed, with the
\* initial view and the class given
AlgorithmFields(view, class) ==
    /\ cls = class
    /\ _DCOP_view = view
    /\ self_running = FALSE
    /\ rpc = "133"
    /\ ncycles = 0
    /\ cycle_log = <<>>
    /\ _simulator_input_queue = <<>>
    /\ _simulator_output_queue = <<>>
    /\ _simulator_message_event = FALSE
    /\ _model_input_queue = <<>>
    /\ _model_output_queue = <<>>
    /\ _model_message_event = FALSE
    /\ model_request_thread = "running"
    /\ nmodel_requests = 0

\* __init__ has returned: every attribute of the worker exists
Constructed == ipc = "done"

\* a worker whose domain loop is not looked at
RunIdle == AlgorithmFields(None, "SampleAlgorithm")

\* a worker whose stats are not looked at as objects
StatsIdle ==
    /\ self_stats = NoneRef
    /\ stats_lock = [owner |-> "none", count |-> 0]
    /\ pc = [t \in Threads |-> "idle"]
    /\ the_message = NoneRef
    /\ snapshots = <<>>
    /\ touched = {}
    /\ nsend = 0

\* no Model is looked at on its own
ModelIdle ==
    /\ mdl = [algorithm |-> "absent"]
    /\ model_thread = "created"
    /\ upd = [n |-> 0]
    /\ model_request_queue = <<>>
    /\ sent = <<>>
    /\ rtouched = {}

ControllerInit ==
    /\ current_state = _init(1).current_state
    /\ running = _init(1).running
    /\ paused = _init(1).paused
    /\ finished = _init(1).finished
    /\ algorithm = _init(1).algorithm
    /\ simulator = _init(1).simulator
    /\ model = _init(1).model
    /\ cq = [f \in QueueFields |-> <<1, f>>]
    /\ gen = 1
    /\ queues = [q \in QueueIds |-> <<>>]
    /\ models = <<>>
    /\ algorithms = <<>>
    /\ ctl = [pc |-> "idle", algorithm_name |-> None]
    /\ call = Returned("__init__", "STOPPED", <<>>)
    /\ putLog = {}

Init ==
    /\ ControllerInit
    /\ AlgorithmInit
    /\ Constructed
    /\ RunIdle
    /\ heap = <<>>
    /\ StatsIdle
    /\ ModelIdle

(***************************************************************************)
(* Model.__init__ and Model._model_control (Model/Model.py)                *)
(***************************************************************************)
NewModel(dyn_dcop, message_delay, computation_cost) ==
    [_dynDCOP |-> dyn_dcop,
     _algorithm_input_queue |-> cq["algorithm_input_queue"],
     _algorithm_output_queue |-> cq["algorithm_output_queue"],
     _model_request_queue |-> cq["model_input_queue"],
     _model_response_queue |-> cq["model_output_queue"],
     _running |-> FALSE, _finished |-> FALSE, _stop |-> FALSE,
     currentDCOP |-> None, _currentCycle |-> 0,
     messageDelay |-> message_delay, computationCost |-> computation_cost,
     model_thread_started |-> FALSE]

\* copy.deepcopy of the currentDCOP of a Model the controller built: that
\* attribute is None throughout Spec, and the copy of None is None
deepcopy(x) == x

\* Model.start, Model.stop, Model.pause: each is `pass`
Model_start(m) == m
Model_stop(m) == m
Model_pause(m) == m

\* One iteration of the loop of _model_control that finds a request.  (An
\* iteration that finds the queue empty changes nothing.)
ModelControl(i) ==
    LET m == models[i]
        q == m._model_request_queue
        request == Head(queues[q])
        popped == [queues EXCEPT ![q] = Tail(@)]
    IN  /\ ~m._stop
        /\ queues[q] # <<>>
        /\ IF request = "START" THEN
               /\ models' = [models EXCEPT ![i] = Model_start(m)]
               /\ queues' = popped
               /\ putLog' = putLog
           ELSE IF request = "STOP" THEN
               /\ models' = [models EXCEPT ![i] = Model_stop(m)]
               /\ queues' = popped
               /\ putLog' = putLog
           ELSE IF request = "PAUSE" THEN
               /\ models' = [models EXCEPT ![i] = Model_pause(m)]
               /\ queues' = popped
               /\ putLog' = putLog
           ELSE IF request = "CURRENT_STATE" THEN
               /\ queues' = put(popped, m._model_response_queue,
                                deepcopy(m.currentDCOP))
               /\ putLog' = putLog \cup
                    {<<"model", deepcopy(m.currentDCOP), m._model_response_queue>>}
               /\ models' = models
           ELSE
               /\ queues' = popped
               /\ UNCHANGED <<models, putLog>>
        /\ UNCHANGED <<current_state, running, paused, finished, algorithm,
                       simulator, model, cq, gen, algorithms, ctl, call>>
    /\ UNCHANGED <<algVars, memVars, stVars, mdVars, runVars, initVars>>

ModelControlStep == \E i \in DOMAIN models : ModelControl(i)

(***************************************************************************)
(* Algorithm.factory (Algorithms/Algorithm.py)                             *)
(***************************************************************************)
\* the object a variant's constructor builds from setup's keyword arguments;
\* the constructor runs Algorithm.__init__ (as SampleAlgorithm's does), which
\* creates the stats dict
NewAlgorithm(desc, dcop) ==
    [cls |-> desc,
     stats |-> Len(heap) + 1,
     simulator_request_queue |-> cq["simulator_input_queue"],
     simulator_response_queue |-> cq["simulator_output_queue"],
     model_request_queue |-> cq["model_input_queue"],
     model_response_queue |-> cq["model_output_queue"],
     control_queue |-> cq["algorithm_control_queue"],
     initialDCOP |-> dcop]

\* factory(desc, **kwargs): "none" when the variant is constructed, else the
\* exception raised.  Calling a constructor with a keyword it does not take
\* is a TypeError.
factory_mut_unknown_constructed(desc, kwargs) ==
    IF desc \in DOMAIN subclass_names
    THEN IF kwargs \subseteq subclass_names[desc] THEN "none" ELSE "TypeError"
    ELSE "none"

factory(desc, kwargs) ==
    IF desc \in DOMAIN subclass_names
    THEN IF kwargs \subseteq subclass_names[desc] THEN "none" ELSE "TypeError"
    ELSE "NotImplementedError"

(***************************************************************************)
(* SimulationController.setup                                              *)
(***************************************************************************)
\* setup up to its blocking get on model_output_queue
SetupCall(algorithm_name, dyndcop, message_delay, computation_cost) ==
    /\ ctl.pc = "idle"
    /\ IF current_state # "STOPPED" THEN
           /\ call' = Raised("setup", current_state, "InvalidState", current_state)
           /\ UNCHANGED <<current_state, running, paused, finished, algorithm,
                          simulator, model, cq, gen, queues, models, algorithms,
                          ctl, putLog>>
       ELSE
           LET puts == << <<cq["model_input_queue"], "CURRENT_STATE">> >>
           IN  /\ Len(models) < MaxModels
               /\ models' = Append(models,
                                NewModel(dyndcop, message_delay, computation_cost))
               /\ model' = Len(models) + 1
               /\ queues' = putAll(queues, puts)
               /\ putLog' = putLog \cup Logged("setup", puts)
               /\ ctl' = [pc |-> "setup_get", algorithm_name |-> algorithm_name]
               /\ call' = Pending("setup", current_state, puts)
               /\ UNCHANGED <<current_state, running, paused, finished,
                              algorithm, simulator, cq, gen, algorithms>>
    /\ UNCHANGED <<algVars, memVars, stVars, mdVars, runVars, initVars>>

\* what setup leaves in current_state once the factory call has ended with exc
setup_state_mut_early(exc) == "SETUP"

setup_state(exc) == IF exc = "none" THEN "SETUP" ELSE current_state

\* setup from the reply of the Model to its end
SetupReturn ==
    /\ ctl.pc = "setup_get"
    /\ queues[cq["model_output_queue"]] # <<>>
    /\ LET dcop == Head(queues[cq["model_output_queue"]])
           exc == factory(ctl.algorithm_name, alg_kwargs)
       IN  /\ queues' = [queues EXCEPT ![cq["model_output_queue"]] = Tail(@)]
           /\ simulator' = model
           /\ IF exc = "none" THEN
                  /\ algorithms' = Append(algorithms,
                                          NewAlgorithm(ctl.algorithm_name, dcop))
                  /\ algorithm' = Len(algorithms) + 1
                  /\ heap' = heap \o new_stats(Len(heap))
                  /\ call' = Returned("setup", call.pre, call.puts)
              ELSE
                  /\ UNCHANGED <<algorithms, algorithm, heap>>
                  /\ call' = Raised("setup", call.pre, exc, "none")
           /\ current_state' = setup_state(exc)
    /\ ctl' = [pc |-> "idle", algorithm_name |-> None]
    /\ UNCHANGED <<running, paused, finished, model, cq, gen, models, putLog>>
    /\ UNCHANGED <<algVars, stVars, mdVars, runVars, initVars>>

(***************************************************************************)
(* SimulationController.start, stop, pause, resume                         *)
(***************************************************************************)
\* the queues start puts START on, in order
start_targets ==
    <<cq["model_input_queue"], cq["simulator_input_queue"],
      cq["algorithm_control_queue"]>>

start ==
    /\ ctl.pc = "idle"
    /\ IF current_state # "SETUP" THEN
           /\ call' = Raised("start", current_state, "InvalidState", current_state)
           /\ UNCHANGED <<current_state, running, queues, putLog>>
       ELSE
           LET puts == [i \in 1..Len(start_targets) |-> <<start_targets[i], "START">>]
           IN  /\ queues' = putAll(queues, puts)
               /\ putLog' = putLog \cup Logged("start", puts)
               /\ current_state' = "RUNNING"
               /\ running' = TRUE
               /\ call' = Returned("start", current_state, puts)
    /\ UNCHANGED <<paused, finished, algorithm, simulator, model, cq, gen,
                   models, algorithms, ctl>>
    /\ UNCHANGED <<algVars, memVars, stVars, mdVars, runVars, initVars>>

\* the queues stop puts STOP on, in order
stop_targets ==
    <<cq["algorithm_input_queue"], cq["simulator_input_queue"],
      cq["model_input_queue"]>>

\* put on an open, unbounded multiprocessing.Queue does not raise, and the
\* controller never closes a queue, so the except branch of stop is not taken.
stop ==
    /\ ctl.pc = "idle"
    /\ IF current_state = "STOPPED" THEN
           /\ call' = Returned("stop", current_state, <<>>)
           /\ UNCHANGED <<current_state, running, paused, finished, algorithm,
                          simulator, model, cq, gen, queues, putLog>>
       ELSE
           LET puts == [i \in 1..Len(stop_targets) |-> <<stop_targets[i], "STOP">>]
               new == _init(gen + 1)
           IN  /\ gen < MaxGen
               /\ queues' = putAll(queues, puts)
               /\ putLog' = putLog \cup Logged("stop", puts)
               /\ gen' = gen + 1
               /\ current_state' = new.current_state
               /\ running' = new.running
               /\ paused' = new.paused
               /\ finished' = new.finished
               /\ algorithm' = new.algorithm
               /\ simulator' = new.simulator
               /\ model' = new.model
               /\ cq' = new.cq
               /\ call' = Returned("stop", current_state, puts)
    /\ UNCHANGED <<models, algorithms, ctl>>
    /\ UNCHANGED <<algVars, memVars, stVars, mdVars, runVars, initVars>>

\* the condition under which pause raises
pause_raises_mut_never == FALSE

pause_raises == ~running /\ current_state # "RUNNING"

\* Building the message of the exception concatenates a str and an Enum
\* member, which is a TypeError: the InvalidState is never constructed.
\* lines 184-185: what pause assigns
pause_assigns_mut_state_only == [paused |-> paused, current_state |-> "PAUSED"]

pause_assigns == [paused |-> TRUE, current_state |-> "PAUSED"]

pause ==
    /\ ctl.pc = "idle"
    /\ IF pause_raises THEN
           /\ call' = Raised("pause", current_state, "TypeError", "none")
           /\ UNCHANGED <<current_state, paused>>
       ELSE
           /\ paused' = pause_assigns.paused
           /\ current_state' = pause_assigns.current_state
           /\ call' = Returned("pause", current_state, <<>>)
    /\ UNCHANGED <<running, finished, algorithm, simulator, model, cq, gen,
                   queues, models, algorithms, ctl, putLog>>
    /\ UNCHANGED <<algVars, memVars, stVars, mdVars, runVars, initVars>>

resume ==
    /\ ctl.pc = "idle"
    /\ IF current_state # "PAUSED" THEN
           call' = Raised("resume", current_state, "TypeError", "none")
       ELSE
           call' = Returned("resume", current_state, <<>>)
    /\ UNCHANGED <<current_state, running, paused, finished, algorithm,
                   simulator, model, cq, gen, queues, models, algorithms, ctl,
                   putLog>>
    /\ UNCHANGED <<algVars, memVars, stVars, mdVars, runVars, initVars>>

\* get_current_stats: `return self.algorithm.stats`.  The attribute of the
\* Algorithm object is read where the controller runs; nothing is put on a
\* queue and nothing is copied.  Without an Algorithm, None has no stats.
get_current_stats ==
    /\ ctl.pc = "idle"
    /\ IF algorithm = NoneRef THEN
           call' = Raised("get_current_stats", current_state, "AttributeError",
                          "none")
       ELSE
           call' = ReturnedValue("get_current_stats", current_state,
                                 algorithms[algorithm].stats)
    /\ UNCHANGED <<current_state, running, paused, finished, algorithm,
                   simulator, model, cq, gen, queues, models, algorithms, ctl,
                   putLog>>
    /\ UNCHANGED <<algVars, memVars, stVars, mdVars, runVars, initVars>>

setup ==
    \/ \E n \in AlgorithmNames, d \in DynDCOPs, md \in Delays, cc \in Delays :
          SetupCall(n, d, md, cc)
    \/ SetupReturn

Next ==
    \/ setup
    \/ start
    \/ stop
    \/ pause
    \/ resume
    \/ get_current_stats
    \/ ModelControlStep

Spec == Init /\ [][Next]_vars

\* Every Model runs _model_control in a thread of its own, started in
\* Model.__init__; the scheduler runs each thread again and again.
FairSpec == Spec /\ \A i \in 1..MaxModels : WF_vars(i \in DOMAIN models /\ ModelControl(i))

(***************************************************************************)
(* The Algorithm worker (Algorithms/Algorithm.py, common/pydyndsProcess.py)*)
(* In AlgSpec the worker has been constructed with a control queue pair    *)
(* and a message event and has not been sent START: the domain thread is   *)
(* the thread of the caller, which calls the methods one after the other.  *)
(***************************************************************************)
\* RLock.acquire and RLock.release by thread t
acquire(lock, t) == [owner |-> t, count |-> lock.count + 1]

release(lock, t) ==
    IF lock.count = 1 THEN [owner |-> "none", count |-> 0]
    ELSE [owner |-> lock.owner, count |-> lock.count - 1]

\* thread t can take the lock without waiting
CanAcquire(lock, t) == lock.owner \in {"none", t}

\* _send_message: the stats after the call (the method returns None)
_send_message(st, source, destination, data) ==
    LET new_message == Message(source, destination, data)
    IN  [st EXCEPT !.total_messages = @ + 1,
                   !.last_message = new_message,
                   !.unread_messages = Append(@, new_message)]

\* send_message entered at call depth `depth` with the pause lock in state
\* `lock`: under the pause lock it calls send_message again (line 204), until
\* the interpreter refuses the next frame.  Every `with` releases the lock on
\* the way out.  Gives how the call ends and the lock it leaves.
RECURSIVE send_message(_, _, _, _, _)
send_message(depth, lock, source, destination, data) ==
    IF depth >= RecursionLimit
    THEN [exc |-> "RecursionError", value |-> NoneMsg, lock |-> lock]
    ELSE LET inner == send_message(depth + 1, acquire(lock, "domain"),
                                   source, destination, data)
         IN  [inner EXCEPT !.lock = release(inner.lock, "domain")]

\* get_stats: copy.deepcopy of the stats, taken under the stats lock
get_stats == stats

\* the domain thread calls send_message(source, destination, data); the call
\* waits while the control thread holds the pause lock
CallSendMessage(source, destination, data) ==
    /\ Len(sends) < MaxSends
    /\ CanAcquire(pause_lock, "domain")
    /\ LET r == send_message(0, pause_lock, source, destination, data)
       IN  /\ pause_lock' = r.lock
           /\ acall' = [op |-> "send_message",
                        args |-> <<source, destination, data>>,
                        status |-> IF r.exc = "none" THEN "returned" ELSE "raised",
                        exc |-> r.exc, value |-> r.value]
    /\ sends' = Append(sends, <<"send_message", source, destination, data>>)
    /\ UNCHANGED <<stats, _stop, done, simulation_thread, _input_queue,
                   _output_queue, _message_event, control_thread, nrequests>>
    /\ UNCHANGED <<ctlVars, memVars, stVars, mdVars, runVars, initVars>>

\* the domain thread calls _send_message(source, destination, data)
CallUnderscoreSendMessage(source, destination, data) ==
    /\ Len(sends) < MaxSends
    /\ stats' = _send_message(stats, source, destination, data)
    /\ acall' = [op |-> "_send_message", args |-> <<source, destination, data>>,
                 status |-> "returned", exc |-> "none", value |-> NoneMsg]
    /\ sends' = Append(sends, <<"_send_message", source, destination, data>>)
    /\ UNCHANGED <<pause_lock, _stop, done, simulation_thread, _input_queue,
                   _output_queue, _message_event, control_thread, nrequests>>
    /\ UNCHANGED <<ctlVars, memVars, stVars, mdVars, runVars, initVars>>

\* the domain thread calls get_stats()
CallGetStats ==
    /\ acall' = [op |-> "get_stats", args |-> <<>>, status |-> "returned",
                 exc |-> "none", value |-> get_stats]
    /\ UNCHANGED <<stats, pause_lock, _stop, done, simulation_thread,
                   _input_queue, _output_queue, _message_event, control_thread,
                   sends, nrequests>>
    /\ UNCHANGED <<ctlVars, memVars, stVars, mdVars, runVars, initVars>>

\* the requests sent to the worker that has not been started
AlgRequests == {"PAUSE", "RESUME", "STATS", "STOP", "CURRENT_STATE"}

\* the owner of the control channel puts a request and sets the event
SendRequest(request) ==
    /\ nrequests < MaxRequests
    /\ nrequests' = nrequests + 1
    /\ _input_queue' = Append(_input_queue, request)
    /\ _message_event' = TRUE
    /\ UNCHANGED <<stats, pause_lock, _stop, done, simulation_thread,
                   _output_queue, control_thread, acall, sends>>
    /\ UNCHANGED <<ctlVars, memVars, stVars, mdVars, runVars, initVars>>

Reply(kind, value) == [kind |-> kind, value |-> value]

\* Algorithm._special_control(request): whether the request is handled by it
\* (the one of pydyndsProcess, which Algorithm overrides, returns False)
_special_control_mut_base(request) == FALSE

_special_control(request) == request = "STATS"

\* One iteration of the loop of pydyndsProcess._control that finds a request
\* (an iteration that finds no event or no request changes nothing).  An
\* exception other than queue.Empty and AttributeError ends the thread.
_control ==
    /\ control_thread = "running"
    /\ ~_stop
    /\ _message_event
    /\ _input_queue # <<>>
    /\ LET request == Head(_input_queue)
       IN  /\ _input_queue' = Tail(_input_queue)
           /\ IF _special_control(request) THEN
                  \* Algorithm._special_control: the stats are put
                  /\ _output_queue' = Append(_output_queue,
                                             Reply("stats", get_stats))
                  /\ UNCHANGED <<pause_lock, _stop, done, simulation_thread,
                                 control_thread>>
              ELSE IF request = "START" THEN
                  \* _start_control: a thread can be started once
                  IF simulation_thread = "created" THEN
                      /\ simulation_thread' = "started"
                      /\ _output_queue' = Append(_output_queue,
                                                 Reply("request", "SUCCESS"))
                      /\ UNCHANGED <<pause_lock, _stop, done, control_thread>>
                  ELSE
                      /\ control_thread' = "RuntimeError"
                      /\ UNCHANGED <<pause_lock, _stop, done, simulation_thread,
                                     _output_queue>>
              ELSE IF request = "STOP" THEN
                  \* _stop_control with Algorithm.pre_stop, then break
                  /\ done' = TRUE
                  /\ _stop' = TRUE
                  /\ _output_queue' = Append(_output_queue,
                                             Reply("request", "SUCCESS"))
                  /\ control_thread' = "finished"
                  /\ UNCHANGED <<pause_lock, simulation_thread>>
              ELSE IF request = "PAUSE" THEN
                  \* _pause_control: waits for the pause lock
                  /\ CanAcquire(pause_lock, "control")
                  /\ pause_lock' = acquire(pause_lock, "control")
                  /\ _output_queue' = Append(_output_queue,
                                             Reply("request", "SUCCESS"))
                  /\ UNCHANGED <<_stop, done, simulation_thread, control_thread>>
              ELSE IF request = "RESUME" THEN
                  \* _resume_control: releasing a lock one does not hold raises
                  IF pause_lock.owner = "control" THEN
                      /\ pause_lock' = release(pause_lock, "control")
                      /\ _output_queue' = Append(_output_queue,
                                                 Reply("request", "SUCCESS"))
                      /\ UNCHANGED <<_stop, done, simulation_thread,
                                     control_thread>>
                  ELSE
                      /\ control_thread' = "RuntimeError"
                      /\ UNCHANGED <<pause_lock, _stop, done, simulation_thread,
                                     _output_queue>>
              ELSE
                  \* no branch of the if chain: the request is dropped
                  UNCHANGED <<pause_lock, _stop, done, simulation_thread,
                              _output_queue, control_thread>>
    /\ UNCHANGED <<stats, _message_event, acall, sends, nrequests>>
    /\ UNCHANGED <<ctlVars, memVars, stVars, mdVars, runVars, initVars>>

\* the requests the holder of the model channel sends: STATS and another one
AlgModelRequests == {"STATS", "CURRENT_STATE"}

\* the Model's side puts a request on _model_input_queue and sets the event
SendModelRequest(request) ==
    /\ nmodel_requests < MaxModelRequests
    /\ nmodel_requests' = nmodel_requests + 1
    /\ _model_input_queue' = Append(_model_input_queue, request)
    /\ _model_message_event' = TRUE
    /\ UNCHANGED <<cls, _DCOP_view, self_running, rpc, ncycles, cycle_log,
                   _simulator_input_queue, _simulator_output_queue,
                   _simulator_message_event, _model_output_queue,
                   model_request_thread>>
    /\ UNCHANGED <<ctlVars, algVars, memVars, stVars, mdVars, initVars>>

\* One iteration of the loop of model_request_handler that finds a request.
\* Only queue.Empty is caught: the ValueError of line 94 ends the thread.
model_request_handler ==
    /\ model_request_thread = "running"
    /\ ~_stop
    /\ _model_message_event
    /\ _model_input_queue # <<>>
    /\ LET request == Head(_model_input_queue)
       IN  /\ _model_input_queue' = Tail(_model_input_queue)
           /\ IF request = "STATS" THEN
                  /\ _model_output_queue' = Append(_model_output_queue,
                                                   Reply("stats", get_stats))
                  /\ UNCHANGED model_request_thread
              ELSE
                  /\ model_request_thread' = "ValueError"
                  /\ UNCHANGED _model_output_queue
    /\ UNCHANGED <<cls, _DCOP_view, self_running, rpc, ncycles, cycle_log,
                   _simulator_input_queue, _simulator_output_queue,
                   _simulator_message_event, _model_message_event,
                   nmodel_requests>>
    /\ UNCHANGED <<ctlVars, algVars, memVars, stVars, mdVars, initVars>>

AlgNext ==
    \/ \E request \in AlgModelRequests : SendModelRequest(request)
    \/ model_request_handler
    \/ \E a \in SendArgs : CallSendMessage(a[1], a[2], a[3])
    \/ \E a \in SendArgs : CallUnderscoreSendMessage(a[1], a[2], a[3])
    \/ CallGetStats
    \/ \E request \in AlgRequests : SendRequest(request)
    \/ _control

AlgSpec == Init /\ [][AlgNext]_vars

(***************************************************************************)
(* StatsSpec: Algorithm._send_message and Algorithm.get_stats, statement   *)
(* by statement, on the stats of one worker.                               *)
(***************************************************************************)
StatsInit ==
    /\ ControllerInit
    /\ AlgorithmInit
    /\ Constructed
    /\ RunIdle
    /\ heap = new_stats(0)
    /\ self_stats = 1
    /\ stats_lock = [owner |-> "none", count |-> 0]
    /\ pc = [t \in Threads |-> "idle"]
    /\ the_message = NoneRef
    /\ snapshots = <<>>
    /\ touched = {}
    /\ nsend = 0
    /\ ModelIdle

\* line 187: new_message = Message.Message(source, destination, data)
SendMessageConstruct(source, destination, data) ==
    /\ pc["domain"] = "idle"
    /\ nsend < MaxSends
    /\ nsend' = nsend + 1
    /\ heap' = Append(heap, Message_object(source, destination, data))
    /\ the_message' = Len(heap) + 1
    /\ pc' = [pc EXCEPT !["domain"] = "188"]
    /\ UNCHANGED <<self_stats, stats_lock, snapshots, touched>>
    /\ UNCHANGED <<ctlVars, algVars, mdVars, runVars, initVars>>

\* line 188: with self.stats_lock
SendMessageLock ==
    /\ pc["domain"] = "188"
    /\ CanAcquire(stats_lock, "domain")
    /\ stats_lock' = acquire(stats_lock, "domain")
    /\ pc' = [pc EXCEPT !["domain"] = "189"]
    /\ UNCHANGED <<heap, self_stats, the_message, snapshots, touched, nsend>>
    /\ UNCHANGED <<ctlVars, algVars, mdVars, runVars, initVars>>

\* line 189: self.stats['total_messages'] += 1
SendMessageCount ==
    /\ pc["domain"] = "189"
    /\ heap' = [heap EXCEPT ![self_stats].total_messages = @ + 1]
    /\ pc' = [pc EXCEPT !["domain"] = "190"]
    /\ UNCHANGED <<self_stats, stats_lock, the_message, snapshots, touched, nsend>>
    /\ UNCHANGED <<ctlVars, algVars, mdVars, runVars, initVars>>

\* line 190: self.stats['last_message'] = new_message
SendMessageLast ==
    /\ pc["domain"] = "190"
    /\ heap' = [heap EXCEPT ![self_stats].last_message = the_message]
    /\ pc' = [pc EXCEPT !["domain"] = "191"]
    /\ UNCHANGED <<self_stats, stats_lock, the_message, snapshots, touched, nsend>>
    /\ UNCHANGED <<ctlVars, algVars, mdVars, runVars, initVars>>

\* line 191: self.stats['unread_messages'].append(new_message), and the end
\* of the with block
SendMessageAppend ==
    /\ pc["domain"] = "191"
    /\ heap' = [heap EXCEPT ![heap[self_stats].unread_messages].items =
                                Append(@, the_message)]
    /\ stats_lock' = release(stats_lock, "domain")
    /\ the_message' = NoneRef
    /\ pc' = [pc EXCEPT !["domain"] = "idle"]
    /\ UNCHANGED <<self_stats, snapshots, touched, nsend>>
    /\ UNCHANGED <<ctlVars, algVars, mdVars, runVars, initVars>>

\* thread t has taken a STATS request and calls get_stats (lines 92, 229)
GetStatsCall(t) ==
    /\ pc[t] = "idle"
    /\ Len(snapshots) + Cardinality({u \in Readers : pc[u] # "idle"}) < MaxSnapshots
    /\ pc' = [pc EXCEPT ![t] = "218"]
    /\ UNCHANGED <<heap, self_stats, stats_lock, the_message, snapshots, touched,
                   nsend>>
    /\ UNCHANGED <<ctlVars, algVars, mdVars, runVars, initVars>>

\* line 218: thread t may go into `with self.stats_lock`
get_stats_may_enter_mut_no_lock(t) == TRUE

get_stats_may_enter(t) == CanAcquire(stats_lock, t)

GetStatsLock(t) ==
    /\ pc[t] = "218"
    /\ get_stats_may_enter(t)
    /\ stats_lock' = acquire(stats_lock, t)
    /\ pc' = [pc EXCEPT ![t] = "219"]
    /\ UNCHANGED <<heap, self_stats, the_message, snapshots, touched, nsend>>
    /\ UNCHANGED <<ctlVars, algVars, mdVars, runVars, initVars>>

\* lines 219-220: stats = copy.deepcopy(self.stats), the end of the with
\* block, return stats
GetStatsCopy(t) ==
    /\ pc[t] = "219"
    /\ LET c == copy_deepcopy(heap, self_stats)
       IN  /\ heap' = c.heap
           /\ snapshots' = Append(snapshots, [by |-> t, ref |-> c.ref])
    /\ stats_lock' = release(stats_lock, t)
    /\ pc' = [pc EXCEPT ![t] = "idle"]
    /\ UNCHANGED <<self_stats, the_message, touched, nsend>>
    /\ UNCHANGED <<ctlVars, algVars, mdVars, runVars, initVars>>

\* the holder of snapshots[k] changes the dict it was given: it empties its
\* unread_messages and overwrites the data of its last_message
ChangeSnapshot(k) ==
    /\ k \notin touched
    /\ LET d == heap[snapshots[k].ref]
       IN  /\ d.last_message # NoneRef
           /\ heap' = [heap EXCEPT ![d.unread_messages].items = <<>>,
                                   ![d.last_message].data = "changed"]
    /\ touched' = touched \cup {k}
    /\ UNCHANGED <<self_stats, stats_lock, pc, the_message, snapshots, nsend>>
    /\ UNCHANGED <<ctlVars, algVars, mdVars, runVars, initVars>>

StatsNext ==
    \/ \E a \in SendArgs : SendMessageConstruct(a[1], a[2], a[3])
    \/ SendMessageLock
    \/ SendMessageCount
    \/ SendMessageLast
    \/ SendMessageAppend
    \/ \E t \in Readers : GetStatsCall(t)
    \/ \E t \in Readers : GetStatsLock(t)
    \/ \E t \in Readers : GetStatsCopy(t)
    \/ \E k \in DOMAIN snapshots : ChangeSnapshot(k)

StatsSpec == StatsInit /\ [][StatsNext]_vars

(***************************************************************************)
(* UpdateSpec: Model.run and Model._update (Model/Model.py).               *)
(* The entries of the DynDCOP are objects with a startCycle; the items of  *)
(* a batch of new messages or computations are given by their startCycle.  *)
(***************************************************************************)
\* inputs of Model.__init__
MessageDelays == {0, 2}
ComputationCosts == {0, 3}
\* the start cycles of the entries of a DynDCOP, in order
DynDCOPStarts == {<<0>>, <<0, 10, 20>>}
\* what algorithm.newMessages and algorithm.newComputations may hold
Batches == {<<>>, <<4>>, <<5>>, <<4, 5>>}

\* an entry of the DynDCOP as an object
DCOP_object(startCycle) ==
    [type |-> "DCOP", startCycle |-> startCycle, revision |-> 0]

\* Model.__init__: the attributes of the new Model.  The constructor of
\* Model/Model.py stores no algorithm; `algorithm` says whether the owner has
\* given the Model one (as the constructor of the draft Model.py does).
Model__init__(dyn_dcop, message_delay, computation_cost) ==
    [_dynDCOP |-> dyn_dcop, _running |-> FALSE, _finished |-> FALSE,
     _stop |-> FALSE, currentDCOP |-> NoneRef, _currentCycle |-> 0,
     messageDelay |-> message_delay, computationCost |-> computation_cost,
     algorithm |-> "absent"]

\* _find_latest_start(new_items): new_items[0] of an empty sequence is an
\* IndexError; else the loop keeps the greatest startCycle
_find_latest_start(new_items) ==
    IF new_items = <<>> THEN [exc |-> "IndexError", value |-> 0]
    ELSE [exc |-> "none",
          value |-> CHOOSE c \in Range(new_items) :
                        \A d \in Range(new_items) : d <= c]

_compute_messages_time(m, new_messages) ==
    LET last_first_cycle == _find_latest_start(new_messages)
    IN  [exc |-> last_first_cycle.exc,
         value |-> last_first_cycle.value - m._currentCycle + m.messageDelay]

_compute_computations_time(m, new_computations) ==
    LET last_first_cycle == _find_latest_start(new_computations)
    IN  [exc |-> last_first_cycle.exc,
         value |-> last_first_cycle.value - m._currentCycle + m.computationCost]

max(a, b) == IF a >= b THEN a ELSE b

\* the setter of the property currentCycle (lines 105-107): it raises
currentCycle_setter(m, cycle_number) == [exc |-> "ValueError", m |-> m]

\* lines 189-194: the loop over the DynDCOP, entry by entry (the code reads
\* the start cycle of an entry under the name startCyle).  The last entry that
\* starts after currentCycle is kept; the inner test cannot hold.
RECURSIVE dcop_loop(_, _, _)
dcop_loop(h, m, i) ==
    IF i > Len(m._dynDCOP) THEN m
    ELSE LET dcop == m._dynDCOP[i]
             m1 == IF h[dcop].startCycle > m._currentCycle
                   THEN [m EXCEPT !.currentDCOP = dcop,
                                  !._finished =
                                      IF h[dcop].startCycle < m._currentCycle
                                      THEN TRUE ELSE @]
                   ELSE m
         IN  dcop_loop(h, m1, i + 1)

\* _update: how the call ends, and the Model it leaves
_update(h, m, new_messages, new_computations) ==
    IF m.algorithm = "absent"
    THEN \* line 176: self.algorithm
         [exc |-> "AttributeError", m |-> m]
    ELSE LET message_time == _compute_messages_time(m, new_messages)
             computation_time == _compute_computations_time(m, new_computations)
             set == currentCycle_setter(m, max(message_time.value,
                                               computation_time.value))
         IN  IF message_time.exc # "none"
             THEN [exc |-> message_time.exc, m |-> m]
             ELSE IF computation_time.exc # "none"
             THEN [exc |-> computation_time.exc, m |-> m]
             ELSE IF set.exc # "none"
             THEN [exc |-> set.exc, m |-> m]
             ELSE IF set.m._finished THEN [exc |-> "none", m |-> set.m]
             ELSE [exc |-> "none", m |-> dcop_loop(h, set.m, 1)]

UpdateInit ==
    /\ ControllerInit
    /\ AlgorithmInit
    /\ Constructed
    /\ RunIdle
    /\ StatsIdle
    /\ \E starts \in DynDCOPStarts, message_delay \in MessageDelays,
          computation_cost \in ComputationCosts,
          given \in {"absent", "present"} :
          /\ heap = [i \in DOMAIN starts |-> DCOP_object(starts[i])]
          /\ mdl = [Model__init__([i \in DOMAIN starts |-> i], message_delay,
                                  computation_cost)
                      EXCEPT !.algorithm = given]
    /\ model_thread = "created"
    /\ upd = [n |-> 0]
    /\ model_request_queue = <<>>
    /\ sent = <<>>
    /\ rtouched = {}

\* model_thread is started: run sets the flags and enters its loop
ModelRun ==
    /\ model_thread = "created"
    /\ model_thread' = "running"
    /\ mdl' = [mdl EXCEPT !._running = TRUE, !._finished = FALSE]
    /\ UNCHANGED <<heap, upd, model_request_queue, sent, rtouched>>
    /\ UNCHANGED <<ctlVars, algVars, stVars, runVars, initVars>>

\* One turn of the loop of run: `self._update()`.  An exception leaves the
\* loop and ends the thread.
ModelUpdate(new_messages, new_computations) ==
    /\ model_thread = "running"
    /\ mdl._running
    /\ upd.n < MaxUpdates
    /\ LET r == _update(heap, mdl, new_messages, new_computations)
       IN  /\ mdl' = r.m
           /\ model_thread' = IF r.exc = "none" THEN "running" ELSE r.exc
           /\ upd' = [n |-> upd.n + 1, pre |-> mdl,
                      batches |-> IF mdl.algorithm = "absent" THEN <<>>
                                  ELSE <<new_messages, new_computations>>,
                      exc |-> r.exc]
    /\ UNCHANGED <<heap, model_request_queue, sent, rtouched>>
    /\ UNCHANGED <<ctlVars, algVars, stVars, runVars, initVars>>

UpdateNext ==
    \/ ModelRun
    \/ \E new_messages \in Batches, new_computations \in Batches :
          ModelUpdate(new_messages, new_computations)

UpdateSpec == UpdateInit /\ [][UpdateNext]_vars

(***************************************************************************)
(* ReplySpec: Model._model_control answering CURRENT_STATE.                *)
(* currentDCOP is a public attribute that Model.__init__ leaves None; its  *)
(* owner stores entries of the DynDCOP in it and changes entries in place. *)
(* The response queue hands the object that was put to the receiver.       *)
(***************************************************************************)
\* the requests sent to the Model on its own
ModelRequests == {"CURRENT_STATE", "START"}

ReplyInit ==
    /\ ControllerInit
    /\ AlgorithmInit
    /\ Constructed
    /\ RunIdle
    /\ StatsIdle
    /\ heap = <<DCOP_object(0), DCOP_object(10)>>
    /\ mdl = Model__init__(<<1, 2>>, 0, 0)
    /\ model_thread = "created"
    /\ upd = [n |-> 0]
    /\ model_request_queue = <<>>
    /\ sent = <<>>
    /\ rtouched = {}

\* self.currentDCOP = dcop (the assignment of line 192, made by the owner)
AssignCurrentDCOP(i) ==
    /\ mdl.currentDCOP # mdl._dynDCOP[i]
    /\ mdl' = [mdl EXCEPT !.currentDCOP = mdl._dynDCOP[i]]
    /\ UNCHANGED <<heap, model_thread, upd, model_request_queue, sent, rtouched>>
    /\ UNCHANGED <<ctlVars, algVars, stVars, runVars, initVars>>

\* the owner changes entry i of the DynDCOP in place
ChangeDCOP(i) ==
    /\ heap[mdl._dynDCOP[i]].revision = 0
    /\ heap' = [heap EXCEPT ![mdl._dynDCOP[i]].revision = 1]
    /\ UNCHANGED <<mdl, model_thread, upd, model_request_queue, sent, rtouched>>
    /\ UNCHANGED <<ctlVars, algVars, stVars, runVars, initVars>>

\* a request is put on _model_request_queue
RequestModel(request) ==
    /\ Len(model_request_queue) + Len(sent) < MaxRequests
    /\ model_request_queue' = Append(model_request_queue, request)
    /\ UNCHANGED <<heap, mdl, model_thread, upd, sent, rtouched>>
    /\ UNCHANGED <<ctlVars, algVars, stVars, runVars, initVars>>

\* line 140: what is put on _model_response_queue
current_state_reply_mut_no_copy(h, m) == [heap |-> h, ref |-> m.currentDCOP]

current_state_reply(h, m) == copy_deepcopy(h, m.currentDCOP)

\* One turn of the loop of _model_control that finds a request: start, stop
\* and pause are `pass`; CURRENT_STATE is answered.
ModelControlTurn ==
    /\ ~mdl._stop
    /\ model_request_queue # <<>>
    /\ model_request_queue' = Tail(model_request_queue)
    /\ IF Head(model_request_queue) = "CURRENT_STATE"
       THEN LET reply == current_state_reply(heap, mdl)
            IN  /\ heap' = reply.heap
                /\ sent' = Append(sent, reply.ref)
       ELSE UNCHANGED <<heap, sent>>
    /\ UNCHANGED <<mdl, model_thread, upd, rtouched>>
    /\ UNCHANGED <<ctlVars, algVars, stVars, runVars, initVars>>

\* the receiver of reply k changes the object it was given
ChangeReply(k) ==
    /\ k \notin rtouched
    /\ sent[k] # NoneRef
    /\ heap' = [heap EXCEPT ![sent[k]].revision = 2]
    /\ rtouched' = rtouched \cup {k}
    /\ UNCHANGED <<mdl, model_thread, upd, model_request_queue, sent>>
    /\ UNCHANGED <<ctlVars, algVars, stVars, runVars, initVars>>

ReplyNext ==
    \/ \E i \in DOMAIN mdl._dynDCOP : AssignCurrentDCOP(i)
    \/ \E i \in DOMAIN mdl._dynDCOP : ChangeDCOP(i)
    \/ \E request \in ModelRequests : RequestModel(request)
    \/ ModelControlTurn
    \/ \E k \in DOMAIN sent : ChangeReply(k)

ReplySpec == ReplyInit /\ [][ReplyNext]_vars

(***************************************************************************)
(* RunSpec: one Algorithm worker with its control thread and its domain    *)
(* loop (Algorithm.run, which START launches on simulation_thread), line   *)
(* by line where a thread can wait: on the pause lock and on the response  *)
(* of the Simulator.                                                       *)
(***************************************************************************)
\* the classes of the worker: the variant the source ships and a variant
\* plugged in by the user, whose Run returns without calling the worker
Variants == {"SampleAlgorithm", "PluggedAlgorithm"}

\* the views a worker is constructed with, and those the Simulator answers
InitialViews == {None, "dcop0"}
Views == {None, "dcop0", "dcop1"}

\* the control requests sent to the worker
RunRequests == {"START", "STOP", "PAUSE", "RESUME", "STATS"}

RunInit ==
    /\ ControllerInit
    /\ AlgorithmInit
    /\ Constructed
    /\ heap = <<>>
    /\ StatsIdle
    /\ ModelIdle
    /\ \E view \in InitialViews, class \in Variants : AlgorithmFields(view, class)

\* Algorithm.check_input
check_input_mut_is_none(view) == view = None

check_input(view) == view # None

\* Algorithm.run_setup on the view and the done flag given: the flags it
\* leaves, what it returns and the calls it made
run_setup(view, d) ==
    IF ~check_input(view)
    THEN [running |-> FALSE, done |-> TRUE, result |-> FALSE,
          calls |-> <<"check_input">>]
    ELSE [running |-> TRUE, done |-> d, result |-> TRUE,
          calls |-> <<"check_input", "preprocessing">>]

\* `with self.pause_lock:` entered by the domain thread: it waits while
\* another thread holds the lock
with_pause_lock_mut_no_wait == TRUE

with_pause_lock == CanAcquire(pause_lock, "domain")

\* line 133, `while not self.done`
WhileNotDone ==
    /\ simulation_thread = "started"
    /\ rpc = "133"
    /\ IF done THEN
           /\ rpc' = "exited"
           /\ UNCHANGED <<ncycles, cycle_log>>
       ELSE
           /\ ncycles < MaxCycles
           /\ ncycles' = ncycles + 1
           /\ cycle_log' = <<>>
           /\ rpc' = "136"
    /\ UNCHANGED <<cls, _DCOP_view, self_running, _simulator_input_queue,
                   _simulator_output_queue, _simulator_message_event,
                   _model_input_queue, _model_output_queue,
                   _model_message_event, model_request_thread, nmodel_requests>>
    /\ UNCHANGED <<ctlVars, algVars, memVars, stVars, mdVars, initVars>>

\* lines 137-141: where run goes on after run_setup has returned `result`
after_run_setup_mut_skips_ready(result) == IF result THEN "145" ELSE "exited"

after_run_setup(result) == IF result THEN "141" ELSE "exited"

\* lines 136-138: run_setup under the pause lock; `return` on False
RunSetup ==
    /\ rpc = "136"
    /\ with_pause_lock
    /\ LET r == run_setup(_DCOP_view, done)
       IN  /\ self_running' = r.running
           /\ done' = r.done
           /\ cycle_log' = cycle_log \o r.calls
           /\ rpc' = after_run_setup(r.result)
    /\ UNCHANGED <<cls, _DCOP_view, ncycles, _simulator_input_queue,
                   _simulator_output_queue, _simulator_message_event,
                   _model_input_queue, _model_output_queue,
                   _model_message_event, model_request_thread, nmodel_requests>>
    /\ UNCHANGED <<stats, pause_lock, _stop, simulation_thread, _input_queue,
                   _output_queue, _message_event, control_thread, acall, sends,
                   nrequests>>
    /\ UNCHANGED <<ctlVars, memVars, stVars, mdVars, initVars>>

\* what ready puts on _simulator_input_queue (line 241)
ready_puts_mut_twice == <<"ViewUpdateRequest", "ViewUpdateRequest">>

ready_puts == <<"ViewUpdateRequest">>

\* lines 141-142 with ready up to its get (lines 241-242): the pause lock is
\* taken, the request is put and the event of the Simulator is set
ReadyPut ==
    /\ rpc = "141"
    /\ with_pause_lock
    /\ pause_lock' = acquire(pause_lock, "domain")
    /\ _simulator_input_queue' = _simulator_input_queue \o ready_puts
    /\ _simulator_message_event' = TRUE
    /\ cycle_log' = Append(cycle_log, "ready")
    /\ rpc' = "248"
    /\ UNCHANGED <<cls, _DCOP_view, self_running, ncycles,
                   _simulator_output_queue, _model_input_queue,
                   _model_output_queue, _model_message_event,
                   model_request_thread, nmodel_requests>>
    /\ UNCHANGED <<stats, _stop, done, simulation_thread, _input_queue,
                   _output_queue, _message_event, control_thread, acall, sends,
                   nrequests>>
    /\ UNCHANGED <<ctlVars, memVars, stVars, mdVars, initVars>>

\* line 248, the blocking get of ready, and the end of the `with` of line 141
ReadyGet ==
    /\ rpc = "248"
    /\ _simulator_output_queue # <<>>
    /\ _DCOP_view' = Head(_simulator_output_queue)
    /\ _simulator_output_queue' = Tail(_simulator_output_queue)
    /\ pause_lock' = release(pause_lock, "domain")
    /\ cycle_log' = Append(cycle_log, "ready returned")
    /\ rpc' = "145"
    /\ UNCHANGED <<cls, self_running, ncycles, _simulator_input_queue,
                   _simulator_message_event, _model_input_queue,
                   _model_output_queue, _model_message_event,
                   model_request_thread, nmodel_requests>>
    /\ UNCHANGED <<stats, _stop, done, simulation_thread, _input_queue,
                   _output_queue, _message_event, control_thread, acall, sends,
                   nrequests>>
    /\ UNCHANGED <<ctlVars, memVars, stVars, mdVars, initVars>>

\* line 145: Run is entered
RunCall ==
    /\ rpc = "145"
    /\ cycle_log' = Append(cycle_log, "Run")
    /\ rpc' = "Run"
    /\ UNCHANGED <<cls, _DCOP_view, self_running, ncycles,
                   _simulator_input_queue, _simulator_output_queue,
                   _simulator_message_event, _model_input_queue,
                   _model_output_queue, _model_message_event,
                   model_request_thread, nmodel_requests>>
    /\ UNCHANGED <<ctlVars, algVars, memVars, stVars, mdVars, initVars>>

\* The body of Run.  SampleAlgorithm.Run (line 286) calls send_message, which
\* waits for the pause lock and ends as send_message does; an exception that
\* leaves Run leaves run and ends the thread.  The Run of the plugged
\* variant returns.
Run ==
    /\ rpc = "Run"
    /\ IF cls = "SampleAlgorithm" THEN
           /\ with_pause_lock
           /\ LET r == send_message(0, pause_lock, "v1", "v2", "data")
              IN  /\ pause_lock' = r.lock
                  /\ rpc' = IF r.exc = "none" THEN "148" ELSE r.exc
       ELSE
           /\ rpc' = "148"
           /\ UNCHANGED pause_lock
    /\ UNCHANGED <<cls, _DCOP_view, self_running, ncycles, cycle_log,
                   _simulator_input_queue, _simulator_output_queue,
                   _simulator_message_event, _model_input_queue,
                   _model_output_queue, _model_message_event,
                   model_request_thread, nmodel_requests>>
    /\ UNCHANGED <<stats, _stop, done, simulation_thread, _input_queue,
                   _output_queue, _message_event, control_thread, acall, sends,
                   nrequests>>
    /\ UNCHANGED <<ctlVars, memVars, stVars, mdVars, initVars>>

\* lines 148-149: run_teardown (`pass`) under the pause lock
RunTeardown ==
    /\ rpc = "148"
    /\ with_pause_lock
    /\ cycle_log' = Append(cycle_log, "run_teardown")
    /\ rpc' = "133"
    /\ UNCHANGED <<cls, _DCOP_view, self_running, ncycles,
                   _simulator_input_queue, _simulator_output_queue,
                   _simulator_message_event, _model_input_queue,
                   _model_output_queue, _model_message_event,
                   model_request_thread, nmodel_requests>>
    /\ UNCHANGED <<ctlVars, algVars, memVars, stVars, mdVars, initVars>>

\* The other end of the Simulator channels: a ViewUpdateRequest is taken
\* and answered with the view of the present cycle.  (Simulator.py holds
\* the two queues and has no code that serves them.)
SimulatorAnswer(view) ==
    /\ _simulator_input_queue # <<>>
    /\ _simulator_input_queue' = Tail(_simulator_input_queue)
    /\ _simulator_output_queue' = Append(_simulator_output_queue, view)
    /\ UNCHANGED <<cls, _DCOP_view, self_running, rpc, ncycles, cycle_log,
                   _simulator_message_event, _model_input_queue,
                   _model_output_queue, _model_message_event,
                   model_request_thread, nmodel_requests>>
    /\ UNCHANGED <<ctlVars, algVars, memVars, stVars, mdVars, initVars>>

\* the steps of simulation_thread
run ==
    \/ WhileNotDone
    \/ RunSetup
    \/ ReadyPut
    \/ ReadyGet
    \/ RunCall
    \/ Run
    \/ RunTeardown

RunNext ==
    \/ \E request \in RunRequests : SendRequest(request)
    \/ _control
    \/ run
    \/ \E view \in Views : SimulatorAnswer(view)

RunSpec == RunInit /\ [][RunNext]_vars

\* RunSpec with weak fairness of the two threads of the worker.  Nothing is
\* assumed of the senders of requests nor of the Simulator's end.
FairRunSpec == RunSpec /\ WF_vars(_control) /\ WF_vars(run)

(***************************************************************************)
(* The transition table of the SimulationController docstring              *)
(* (SimulationController.py, lines 39-44).                                 *)
(***************************************************************************)
LifecycleOps == {"setup", "start", "stop", "pause", "resume"}

\* the calls the table allows, with the state each ends in
TableTarget(op, pre) ==
    CASE op = "setup" /\ pre = "STOPPED" -> "SETUP"
      [] op = "start" /\ pre = "SETUP" -> "RUNNING"
      [] op = "pause" /\ pre = "RUNNING" -> "PAUSED"
      [] op = "resume" /\ pre = "PAUSED" -> "RUNNING"
      [] op = "stop" -> "STOPPED"
      [] OTHER -> "-"

Arrows ==
    {<<"STOPPED", "SETUP">>, <<"SETUP", "RUNNING">>, <<"RUNNING", "PAUSED">>,
     <<"PAUSED", "RUNNING">>, <<"SETUP", "STOPPED">>, <<"RUNNING", "STOPPED">>,
     <<"PAUSED", "STOPPED">>}

\* the last lifecycle call has ended (returned or raised)
CallEnded == call.op \in LifecycleOps /\ call.status # "pending"

(***************************************************************************)
(* C1.  Every call that the transition table allows ends in the table's    *)
(* target state: start in SETUP gives RUNNING, pause in RUNNING gives      *)
(* PAUSED, resume in PAUSED gives RUNNING, stop in SETUP, RUNNING or       *)
(* PAUSED gives STOPPED, and a setup in STOPPED that returns gives SETUP.  *)
(* (A setup that the factory refuses is the subject of C20 and is not      *)
(* counted against the table here.)                                        *)
(***************************************************************************)
C1_AllowedCallReachesTarget ==
    (CallEnded /\ TableTarget(call.op, call.pre) # "-"
       /\ (call.op = "setup" => call.status = "returned"))
    => (call.status = "returned"
        /\ current_state = TableTarget(call.op, call.pre))

(***************************************************************************)
(* C2.  Every change of current_state from one value to a different value  *)
(* is one of the arrows of the transition table.                           *)
(***************************************************************************)
C2_OnlyTableArrows ==
    [][current_state' # current_state
         => <<current_state, current_state'>> \in Arrows]_vars

\* a second round after a stop has gone STOPPED -> SETUP -> RUNNING -> PAUSED
C2_Witness ==
    gen = 2 /\ current_state = "PAUSED" /\ call.op = "pause"
    /\ call.pre = "RUNNING"

(***************************************************************************)
(* C3.  Every lifecycle call that the transition table does not allow      *)
(* (setup outside STOPPED, start outside SETUP, pause outside RUNNING,     *)
(* resume outside PAUSED) fails with an InvalidState error that names the  *)
(* current state: it never returns normally and never fails with another   *)
(* kind of error.                                                          *)
(***************************************************************************)
C3_IllegalCallRaisesInvalidState ==
    (CallEnded /\ call.op # "stop" /\ TableTarget(call.op, call.pre) = "-")
    => (call.status = "raised" /\ call.exc = "InvalidState"
        /\ call.named = call.pre)

(***************************************************************************)
(* C4.  A lifecycle call that fails (raises any error) leaves              *)
(* current_state exactly as it was before the call.                        *)
(***************************************************************************)
C4_FailedCallKeepsState ==
    (CallEnded /\ call.status = "raised") => current_state = call.pre

\* a setup that got as far as the factory and failed there
C4_Witness ==
    CallEnded /\ call.status = "raised" /\ call.op = "setup"
    /\ call.exc = "TypeError" /\ model # NoneRef

(***************************************************************************)
(* C5.  stop() called in SETUP, RUNNING or PAUSED ends with current_state  *)
(* STOPPED, the algorithm, simulator and model references cleared and      *)
(* every controller queue replaced by a newly created empty queue, whether *)
(* or not any worker ever reads the STOP request.                          *)
(***************************************************************************)
C5_StopResets ==
    (CallEnded /\ call.op = "stop" /\ call.pre # "STOPPED")
    => /\ call.status = "returned"
       /\ current_state = "STOPPED"
       /\ algorithm = NoneRef /\ simulator = NoneRef /\ model = NoneRef
       /\ \A f \in QueueFields :
            \* not one of the queues that existed when stop was called
            /\ cq[f][1] > call.gen
            /\ queues[cq[f]] = <<>>
       /\ \A f, h \in QueueFields : f # h => cq[f] # cq[h]

\* stop from RUNNING has returned while STOP and START still sit unread on
\* the queue the Model listens on
C5_Witness ==
    /\ CallEnded /\ call.op = "stop" /\ call.pre = "RUNNING"
    /\ queues[<<call.gen, "model_input_queue">>] = <<"START", "STOP">>

(***************************************************************************)
(* C6.  stop() puts a STOP request on the control channel of each of the   *)
(* three workers, and for each worker this is the channel on which start() *)
(* put that worker's START request.                                        *)
(***************************************************************************)
\* the queues on which a call put `request`
PutOn(puts, request) == {p[1] : p \in {x \in Range(puts) : x[2] = request}}

\* the queues of batch g on which start put START
StartQueues(g) ==
    {e[3] : e \in {x \in putLog : x[1] = "start" /\ x[2] = "START" /\ x[3][1] = g}}

C6_StopOnStartChannels ==
    (CallEnded /\ call.op = "stop" /\ call.pre \in {"RUNNING", "PAUSED"})
    => /\ Cardinality(PutOn(call.puts, "STOP")) = 3
       /\ PutOn(call.puts, "STOP") = StartQueues(call.gen)

(***************************************************************************)
(* C7.  pause() called in RUNNING puts a PAUSE request, and resume()       *)
(* called in PAUSED puts a RESUME request, on the control channel of each  *)
(* of the three workers.                                                   *)
(***************************************************************************)
C7_PauseResumeBroadcast ==
    /\ (CallEnded /\ call.op = "pause" /\ call.pre = "RUNNING")
         => PutOn(call.puts, "PAUSE") = StartQueues(call.gen)
    /\ (CallEnded /\ call.op = "resume" /\ call.pre = "PAUSED")
         => PutOn(call.puts, "RESUME") = StartQueues(call.gen)

(***************************************************************************)
(* C8.  After start() succeeds in SETUP, the control loop of each worker   *)
(* eventually dequeues the START request, launches the worker's domain     *)
(* work loop and replies SUCCESS on the worker's outbound channel.  Stated *)
(* for the Model worker, whose control loop is Model._model_control, and   *)
(* for as long as the controller has not been stopped again (a stop        *)
(* abandons the workers of the batch).                                     *)
(***************************************************************************)
\* some Model that serves batch g has launched its run loop and replied
ModelStarted(g) ==
    \E i \in DOMAIN models :
        /\ models[i]._model_request_queue = <<g, "model_input_queue">>
        /\ models[i].model_thread_started
        /\ <<"model", "SUCCESS", models[i]._model_response_queue>> \in putLog

C8_StartEventuallyAnswered ==
    \A g \in 1..MaxGen :
        (call.op = "start" /\ call.status = "returned" /\ call.gen = g)
            ~> (ModelStarted(g) \/ gen > g)

(***************************************************************************)
(* C9.  After send_message has been called N times in sequence on a fresh  *)
(* Algorithm (and nothing else has touched the stats), get_stats() returns *)
(* total_messages = N, unread_messages holding the N messages in call      *)
(* order, and last_message equal to the N-th message (None when N = 0).    *)
(***************************************************************************)
\* the Message of one entry of sends
MessageOf(c) == Message(c[2], c[3], c[4])

OnlySendMessageCalls == \A i \in DOMAIN sends : sends[i][1] = "send_message"

C9_StatsCountSentMessages ==
    (acall.op = "get_stats" /\ OnlySendMessageCalls)
    => /\ acall.status = "returned"
       /\ acall.value.total_messages = Len(sends)
       /\ acall.value.unread_messages = [i \in DOMAIN sends |-> MessageOf(sends[i])]
       /\ acall.value.last_message =
            IF sends = <<>> THEN NoneMsg ELSE MessageOf(sends[Len(sends)])

(***************************************************************************)
(* C10.  Every call of send_message(source, destination, data) made while  *)
(* the worker is not paused terminates without error and returns the       *)
(* Message it constructed from its arguments.                              *)
(***************************************************************************)
C10_SendMessageReturnsMessage ==
    acall.op = "send_message"
    => /\ acall.status = "returned"
       /\ acall.value = Message(acall.args[1], acall.args[2], acall.args[3])

(***************************************************************************)
(* C11.  Every value that get_stats returns is consistent, however its     *)
(* caller is interleaved with the statements of _send_message: its         *)
(* total_messages is the length of its unread_messages, its last_message   *)
(* is None exactly when total_messages is 0, and otherwise its             *)
(* last_message is the last item of its unread_messages.                   *)
(***************************************************************************)
Consistent(h, r) ==
    LET d == h[r]
        items == h[d.unread_messages].items
    IN  /\ d.total_messages = Len(items)
        /\ (d.last_message = NoneRef) <=> (d.total_messages = 0)
        /\ d.total_messages # 0 => d.last_message = items[Len(items)]

C11_SnapshotsConsistent ==
    [][Len(snapshots') > Len(snapshots)
         => Consistent(heap', snapshots'[Len(snapshots')].ref)]_vars

\* a copy with one message was returned, and now a reader waits for the lock
\* while _send_message has counted its message and not yet stored it
C11_Witness ==
    /\ \E k \in DOMAIN snapshots : heap[snapshots[k].ref].total_messages = 1
    /\ pc["domain"] = "190"
    /\ \E t \in Readers : pc[t] = "218"

(***************************************************************************)
(* C12.  A value returned by get_stats shares nothing with the stats of    *)
(* the Algorithm: no statement of _send_message changes what can be read   *)
(* through a value returned earlier, and no change a holder makes to such  *)
(* a value changes what can be read through Algorithm.stats (which is what *)
(* later calls of get_stats copy).                                         *)
(***************************************************************************)
C12_SnapshotIndependent ==
    [][/\ pc'["domain"] # pc["domain"]
            => \A k \in DOMAIN snapshots :
                  ValueOf(heap', snapshots[k].ref) = ValueOf(heap, snapshots[k].ref)
       /\ touched' # touched
            => ValueOf(heap', self_stats) = ValueOf(heap, self_stats)]_vars

\* a copy taken after the first message was emptied and overwritten by its
\* holder, a second message was sent since, and the stats hold both messages
C12_Witness ==
    \E k \in DOMAIN snapshots :
        /\ k \in touched
        /\ heap[snapshots[k].ref].total_messages = 1
        /\ heap[self_stats].total_messages = 2
        /\ Len(heap[heap[self_stats].unread_messages].items) = 2

(***************************************************************************)
(* C13.  get_current_stats() asks the Algorithm for its stats (a STATS     *)
(* request is put on a queue of the Algorithm and the reply is taken) and  *)
(* what it returns is a copy: never the stats dict of the Algorithm        *)
(* itself.                                                                 *)
(***************************************************************************)
C13_StatsThroughQuery ==
    (call.op = "get_current_stats" /\ call.status = "returned")
    => /\ PutOn(call.puts, "STATS") # {}
       /\ call.value # algorithms[algorithm].stats

(***************************************************************************)
(* C14.  get_current_stats() called in SETUP (after a setup that returned  *)
(* and before any start) returns stats that are all zero: no messages, no  *)
(* computations, no last message or computation, both lists empty.         *)
(***************************************************************************)
ZeroStats == <<0, 0, <<>>, <<>>, <<>>, <<>>>>

C14_ZeroStatsAfterSetup ==
    (call.op = "get_current_stats" /\ call.pre = "SETUP")
    => /\ call.status = "returned"
       /\ ValueOf(heap, call.value) = ZeroStats

\* get_current_stats has returned in SETUP, for the second Algorithm built
C14_Witness ==
    /\ call.op = "get_current_stats" /\ call.pre = "SETUP"
    /\ call.status = "returned" /\ call.value # NoneRef
    /\ current_state = "SETUP" /\ algorithm = 2

(***************************************************************************)
(* The update step of the Model as the specification describes it.         *)
(***************************************************************************)
\* the greatest start cycle of a batch
Latest(batch) == CHOOSE c \in Range(batch) : \A d \in Range(batch) : d <= c

\* an update step has been made, and it read two batches
StepMade == upd.n > 0 /\ upd.batches # <<>>

\* an update step has been made on a batch of messages and one of computations
Advanced == StepMade /\ upd.batches[1] # <<>> /\ upd.batches[2] # <<>>

\* the entry of the DynDCOP with the greatest startCycle <= cycle
ActiveEntry(h, dyn, cycle) ==
    LET begun == {e \in Range(dyn) : h[e].startCycle <= cycle}
    IN  IF begun = {} THEN NoneRef
        ELSE CHOOSE e \in begun :
                 \A f \in begun : h[f].startCycle <= h[e].startCycle

(***************************************************************************)
(* C15.  An update step that reads a non-empty batch of new messages and   *)
(* a non-empty batch of new computations leaves currentCycle at            *)
(* max(Lm - c + messageDelay, Lc - c + computationCost), c being           *)
(* currentCycle before the step and Lm, Lc the greatest start cycles of    *)
(* the two batches.                                                        *)
(***************************************************************************)
C15_CycleAdvance ==
    Advanced
    => LET c == upd.pre._currentCycle
       IN  mdl._currentCycle =
               max(Latest(upd.batches[1]) - c + mdl.messageDelay,
                   Latest(upd.batches[2]) - c + mdl.computationCost)

(***************************************************************************)
(* C16.  After every update step currentDCOP is the entry of the DynDCOP   *)
(* with the greatest startCycle that is <= currentCycle.                   *)
(***************************************************************************)
C16_ActiveEntryIsCurrent ==
    Advanced
    => mdl.currentDCOP = ActiveEntry(heap, mdl._dynDCOP, mdl._currentCycle)

(***************************************************************************)
(* C17.  After an update step finished is true exactly when no entry of    *)
(* the DynDCOP starts later than the active entry.                         *)
(***************************************************************************)
C17_FinishedAtLastEntry ==
    Advanced
    => LET active == ActiveEntry(heap, mdl._dynDCOP, mdl._currentCycle)
       IN  mdl._finished
             <=> ~\E e \in Range(mdl._dynDCOP) :
                      heap[e].startCycle > heap[active].startCycle

(***************************************************************************)
(* C18.  An update step that reads an empty batch of new messages or an    *)
(* empty batch of new computations raises nothing, leaves currentCycle,    *)
(* currentDCOP and finished as they were, and the run loop goes on.        *)
(***************************************************************************)
C18_EmptyBatchNoAdvance ==
    (StepMade /\ (upd.batches[1] = <<>> \/ upd.batches[2] = <<>>))
    => /\ upd.exc = "none"
       /\ mdl._currentCycle = upd.pre._currentCycle
       /\ mdl.currentDCOP = upd.pre.currentDCOP
       /\ mdl._finished = upd.pre._finished
       /\ model_thread = "running"

(***************************************************************************)
(* C19.  Every reply to CURRENT_STATE reads as currentDCOP read when the   *)
(* request was handled, and it is a copy: no change its receiver makes to  *)
(* it changes currentDCOP or an entry of the DynDCOP, and nothing the      *)
(* owner of the Model does afterwards (storing another entry in            *)
(* currentDCOP, changing an entry in place) changes a reply already sent.  *)
(***************************************************************************)
C19_ReplyIsDeepCopy ==
    [][/\ Len(sent') > Len(sent)
            => ValueOf(heap', sent'[Len(sent')]) = ValueOf(heap, mdl.currentDCOP)
       /\ rtouched' # rtouched
            => \A e \in Range(mdl._dynDCOP) \cup {mdl.currentDCOP} :
                  ValueOf(heap', e) = ValueOf(heap, e)
       /\ (rtouched' = rtouched /\ sent' = sent)
            => \A k \in DOMAIN sent :
                  ValueOf(heap', sent[k]) = ValueOf(heap, sent[k])]_vars

\* a reply was sent while currentDCOP was the first entry; since then its
\* receiver changed it, the owner changed the first entry in place and
\* stored the second entry in currentDCOP
C19_Witness ==
    \E k \in DOMAIN sent :
        /\ sent[k] # NoneRef
        /\ k \in rtouched
        /\ heap[sent[k]].startCycle = 0
        /\ heap[mdl._dynDCOP[1]].revision = 1
        /\ mdl.currentDCOP = mdl._dynDCOP[2]

(***************************************************************************)
(* C20.  A setup() called in STOPPED with a name that is not a registered  *)
(* variant ends with the error the factory raises for a name it does not   *)
(* find (NotImplementedError, "The provided class name is not a subclass   *)
(* of Algorithm."); no Algorithm is constructed and current_state is       *)
(* STOPPED afterwards.                                                     *)
(***************************************************************************)
C20_UnknownNameFails ==
    [][(ctl.pc = "setup_get" /\ ctl'.pc = "idle" /\ call.pre = "STOPPED"
        /\ ctl.algorithm_name \notin DOMAIN subclass_names)
       => /\ call'.op = "setup" /\ call'.status = "raised"
          /\ call'.exc = "NotImplementedError"
          /\ algorithms' = algorithms
          /\ algorithm' = NoneRef
          /\ current_state' = "STOPPED"]_vars

\* a setup with an unknown name has ended, after an earlier setup and stop
C20_Witness ==
    /\ call.op = "setup" /\ call.status = "raised"
    /\ call.exc = "NotImplementedError" /\ call.pre = "STOPPED"
    /\ current_state = "STOPPED" /\ algorithm = NoneRef
    /\ model # NoneRef /\ Len(algorithms) = 1

(***************************************************************************)
(* C21.  After a setup() that returned for a DynDCOP that is not empty,    *)
(* the initial DCOP view of the Algorithm it constructed (the initialDCOP  *)
(* its constructor was given) is a copy of the initial snapshot of the     *)
(* DynDCOP: it is never None.                                              *)
(***************************************************************************)
C21_InitialViewIsSnapshot ==
    (call.op = "setup" /\ call.status = "returned"
     /\ models[model]._dynDCOP # None)
    => algorithms[algorithm].initialDCOP # None

(***************************************************************************)
(* The domain loop of the worker has left run: by the return of line 138,  *)
(* by the end of the while loop, or by an exception.                       *)
(***************************************************************************)
DomainLoopExited == rpc \in {"exited", "RecursionError"}

\* PAUSE has been answered and the matching RESUME has not been processed
Paused == pause_lock.owner = "control"

(***************************************************************************)
(* C22.  Once the control loop of a started worker has dequeued STOP (it   *)
(* sets _stop and replies SUCCESS), the control loop has terminated and    *)
(* the domain loop eventually exits, whether STOP found the worker         *)
(* running, paused, or blocked in ready().                                 *)
(***************************************************************************)
C22_StopEndsWorker ==
    (_stop /\ simulation_thread = "started")
    ~> (control_thread = "finished" /\ DomainLoopExited)

(***************************************************************************)
(* C23.  From the SUCCESS reply to a PAUSE until the matching RESUME is    *)
(* processed, the domain loop is in none of the sections guarded by the    *)
(* pause lock (run_setup, ready, run_teardown, send_message) and enters    *)
(* none: the only steps it makes are the loop test and the call and return *)
(* of a Run that sends nothing; the stats, the DCOP view and the running   *)
(* flag do not change.                                                     *)
(***************************************************************************)
UnguardedSteps ==
    {<<"133", "136">>, <<"133", "exited">>, <<"145", "Run">>, <<"Run", "148">>}

C23_PausedNoGuardedSection ==
    [][Paused => /\ rpc # "248"
                 /\ rpc' # rpc => <<rpc, rpc'>> \in UnguardedSteps
                 /\ cycle_log' # cycle_log => cycle_log' \in {<<>>, Append(cycle_log, "Run")}
                 /\ _DCOP_view' = _DCOP_view
                 /\ stats' = stats
                 /\ self_running' = self_running]_vars

\* the worker was paused during a cycle, after Run: its domain loop waits
\* for the pause lock of run_teardown
C23_Witness ==
    /\ Paused /\ control_thread = "running"
    /\ simulation_thread = "started" /\ rpc = "148"
    /\ _DCOP_view # None

(***************************************************************************)
(* C24.  The domain loop never holds the pause lock while it is blocked    *)
(* waiting for another worker: while ready() waits for the response of     *)
(* the Simulator (the get of line 248) the domain thread does not own the  *)
(* pause lock.                                                             *)
(***************************************************************************)
C24_NoLockWhileWaiting ==
    rpc = "248" => pause_lock.owner # "domain"

(***************************************************************************)
(* C25.  A PAUSE sent to a running worker (its domain loop launched and    *)
(* not ended), with a RESUME behind it, does not deadlock: once PAUSE is   *)
(* the request the control loop comes to, it is eventually answered with   *)
(* SUCCESS (the worker is paused), so that the RESUME can be served and    *)
(* the domain loop can go on.                                              *)
(***************************************************************************)
PauseIsNext ==
    /\ control_thread = "running"
    /\ simulation_thread = "started" /\ ~DomainLoopExited
    /\ _input_queue # <<>> /\ Head(_input_queue) = "PAUSE"

C25_PauseResumeNoDeadlock == PauseIsNext ~> Paused

(***************************************************************************)
(* C26.  Control requests other than STOP never end the control loop of a  *)
(* worker: as long as no STOP has been processed (_stop is unset) the      *)
(* control thread is running, whatever was sent before (a RESUME with no   *)
(* PAUSE before it, a second START), so that a later STOP is served.       *)
(***************************************************************************)
C26_ControlLoopSurvives ==
    ~_stop => control_thread = "running"

(***************************************************************************)
(* C27.  A request that is none of START, STOP, PAUSE, RESUME and is not   *)
(* handled by the special_control hook (STATS) is answered with an error   *)
(* reply to its sender, and the loop that took it keeps running: the       *)
(* control loop for a request of the control channel, the model-request    *)
(* handler for a request of the model channel other than STATS.            *)
(***************************************************************************)
ControlHandled == {"START", "STOP", "PAUSE", "RESUME", "STATS"}

C27_UnknownRequestAnswered ==
    [][/\ (/\ Len(_input_queue') < Len(_input_queue)
            /\ Head(_input_queue) \notin ControlHandled)
           => /\ Len(_output_queue') = Len(_output_queue) + 1
              /\ control_thread' = "running"
       /\ (/\ Len(_model_input_queue') < Len(_model_input_queue)
            /\ Head(_model_input_queue) # "STATS")
           => /\ Len(_model_output_queue') = Len(_model_output_queue) + 1
              /\ model_request_thread' = "running"]_vars

(***************************************************************************)
(* C28.  In every cycle of the domain loop the steps come in the order     *)
(* run_setup (check_input, then preprocessing), ready, Run, run_teardown:  *)
(* what a cycle has done so far is always a beginning of that list, so Run *)
(* starts only after the ready of its cycle has returned; and from the     *)
(* start of Run to the end of the cycle the DCOP view is not overwritten.  *)
(***************************************************************************)
CycleOrder ==
    <<"check_input", "preprocessing", "ready", "ready returned", "Run",
      "run_teardown">>

IsPrefix(a, b) == Len(a) <= Len(b) /\ a = SubSeq(b, 1, Len(a))

C28_CycleOrder ==
    /\ [](IsPrefix(cycle_log, CycleOrder))
    /\ [][(\E i \in DOMAIN cycle_log : cycle_log[i] = "Run")
          => _DCOP_view' = _DCOP_view]_vars

\* the second cycle has run to its end on the view the Simulator answered
C28_Witness ==
    /\ cycle_log = CycleOrder /\ ncycles = 2
    /\ rpc = "133" /\ _DCOP_view = "dcop1"

(***************************************************************************)
(* C29.  At most one ViewUpdateRequest of the worker is unanswered at any  *)
(* moment: the requests waiting for the Simulator and the responses not    *)
(* yet taken by the Algorithm are never more than one together, and there  *)
(* is one only while the domain loop is in ready() waiting for it.         *)
(***************************************************************************)
InFlight == Len(_simulator_input_queue) + Len(_simulator_output_queue)

C29_OneRequestInFlight ==
    /\ InFlight <= 1
    /\ InFlight = 1 => rpc = "248"

\* the request of the second cycle is out, after that of the first cycle
\* was answered
C29_Witness ==
    /\ ncycles = 2 /\ rpc = "248"
    /\ _simulator_input_queue = <<"ViewUpdateRequest">>
    /\ _simulator_output_queue = <<>>

(***************************************************************************)
(* C30.  At the top of every cycle (run_setup): if the DCOP view is None,  *)
(* the Algorithm sets done, clears running and leaves the domain loop, and *)
(* the cycle has called neither preprocessing nor ready nor Run; if the    *)
(* view is present, running is set, preprocessing is called and the cycle  *)
(* goes on to ready.                                                       *)
(***************************************************************************)
C30_AbsentViewEndsLoop ==
    [][(rpc = "136" /\ rpc' # rpc)
       => IF _DCOP_view = None
          THEN /\ done' /\ ~self_running'
               /\ rpc' = "exited"
               /\ cycle_log' = <<"check_input">>
          ELSE /\ self_running'
               /\ done' = done
               /\ cycle_log' = <<"check_input", "preprocessing">>
               /\ rpc' = "141"]_vars

\* the Simulator answered None in the first cycle and the second cycle ended
\* the loop at its top, with no STOP
C30_Witness ==
    /\ rpc = "exited" /\ ncycles = 2 /\ _DCOP_view = None
    /\ done /\ ~self_running /\ ~_stop
    /\ cycle_log = <<"check_input">>

(***************************************************************************)
(* C31.  While a worker is paused (PAUSE answered, RESUME not processed)   *)
(* and its control loop is alive, a STATS request on its control channel   *)
(* with the event set is dequeued and answered with a snapshot of the      *)
(* stats, and the worker stays paused: when the control loop takes the     *)
(* request its reply is the stats, and it does eventually take it.         *)
(***************************************************************************)
StatsIsNextPaused ==
    /\ Paused /\ control_thread = "running" /\ _message_event
    /\ _input_queue # <<>> /\ Head(_input_queue) = "STATS"

\* the request answered last was a STATS, with the stats, the worker paused
StatsAnswered ==
    /\ ~StatsIsNextPaused /\ Paused
    /\ _output_queue # <<>>
    /\ _output_queue[Len(_output_queue)].kind = "stats"
    /\ _output_queue[Len(_output_queue)].value = stats

C32_ModelStopEndsLoops ==
    [][\A q \in QueueIds :
         (/\ queues[q] # <<>> /\ Head(queues[q]) = "STOP"
          /\ Len(queues'[q]) < Len(queues[q]))
         => \E i \in DOMAIN models :
               /\ models[i]._model_request_queue = q
               /\ models'[i]._stop
               /\ ~models'[i]._running]_vars

(***************************************************************************)
(* C33.  In every reachable state of the SimulationController the flags    *)
(* agree with current_state: running is true exactly when current_state is *)
(* RUNNING or PAUSED, and paused is true exactly when it is PAUSED.        *)
(***************************************************************************)
C33_FlagsAgree ==
    /\ running <=> current_state \in {"RUNNING", "PAUSED"}
    /\ paused <=> current_state = "PAUSED"

\* a pause has returned for a running simulation
C33_Witness ==
    /\ call.op = "pause" /\ call.status = "returned" /\ call.pre = "RUNNING"
    /\ current_state = "PAUSED" /\ running /\ paused

(***************************************************************************)
(* C34.  Whenever current_state is STOPPED and no call of the controller   *)
(* is in progress, its algorithm, simulator and model references are all   *)
(* None, also after a setup() that failed part-way: no worker that a       *)
(* failed setup created stays referenced.                                  *)
(***************************************************************************)
C34_StoppedHoldsNoWorker ==
    (current_state = "STOPPED" /\ ctl.pc = "idle")
    => /\ algorithm = NoneRef
       /\ simulator = NoneRef
       /\ model = NoneRef

(***************************************************************************)
(* The wiring of setup (SimulationController.py:107-129)                   *)
(***************************************************************************)
\* the loops that dequeue from Queue object q: the control loop of every Model
\* whose _model_request_queue it is (Model.py:125-144), and the model-request
\* handler of every Algorithm that was given it as model_request_queue
\* (Algorithm.py:77-96)
Consumers(q) ==
    {<<"Model", i>> : i \in {k \in DOMAIN models :
                                models[k]._model_request_queue = q}}
    \cup {<<"Algorithm", j>> : j \in {k \in DOMAIN algorithms :
                                        algorithms[k].model_request_queue = q}}

\* the kinds of reply that were wired to Queue object q: a Model puts DCOP
\* snapshots on its _model_response_queue (Model.py:137), an Algorithm puts
\* stats snapshots on its model_response_queue (Algorithm.py:92)
ReplyKinds(q) ==
    {"DCOP" : i \in {k \in DOMAIN models :
                        models[k]._model_response_queue = q}}
    \cup {"stats" : j \in {k \in DOMAIN algorithms :
                              algorithms[k].model_response_queue = q}}

\* C35: with the queues wired as setup wires them, every channel has a single
\* consumer and a single kind of reply: the queue the Model's control loop
\* dequeues from is not also dequeued by an Algorithm's model-request handler
\* (nor by another Model), and the queue the controller reads the reply to
\* CURRENT_STATE from gets DCOP snapshots only, never stats snapshots.
C35_SingleConsumer ==
    \A q \in QueueIds :
        /\ Cardinality(Consumers(q)) <= 1
        /\ Cardinality(ReplyKinds(q)) <= 1

\* the control loop takes a RESUME in this step and replies SUCCESS to it
ResumeAnswered ==
    /\ _input_queue # <<>>
    /\ Head(_input_queue) = "RESUME"
    /\ _input_queue' = Tail(_input_queue)
    /\ Len(_output_queue') = Len(_output_queue) + 1
    /\ _output_queue'[Len(_output_queue')].kind = "request"
    /\ _output_queue'[Len(_output_queue')].value = "SUCCESS"

\* C36: whenever a worker's control loop has replied SUCCESS to a RESUME, the
\* pause lock is free (so the domain loop can pass its next checkpoint),
\* whatever sequence of PAUSE and RESUME requests came before, two PAUSE
\* requests followed by one RESUME included.
C36_ResumeFreesLock ==
    [][ResumeAnswered => pause_lock'.owner = "none"]_vars

(***************************************************************************)
(* The construction of an Algorithm worker.  pydyndsProcess.__init__       *)
(* starts the control thread (lines 25-26) and only then creates the pause *)
(* lock (line 28); Algorithm.__init__ goes on to assign the fields of the  *)
(* subclass (lines 43-68).  In ConstructSpec the control thread has just   *)
(* been started and runs beside the rest of the constructor.               *)
(***************************************************************************)
\* the lines at which the constructing thread stands, in order: each is the
\* first line of the assignments it makes next
InitLines == <<"28", "43", "58", "61", "65", "68", "done">>

\* the attributes, of those a control request reads, that exist when the
\* constructing thread stands at line l (simulation_thread is None from
\* line 19 until line 68 has run)
Attributes(l) ==
    CASE l = "28" -> {}
      [] l \in {"43", "58"} -> {"pause_lock"}
      [] l = "61" -> {"pause_lock", "stats_lock"}
      [] l \in {"65", "68"} -> {"pause_lock", "stats_lock", "stats"}
      [] OTHER -> {"pause_lock", "stats_lock", "stats", "simulation_thread"}

\* the attributes the handling of a request reads: _pause_control and
\* _resume_control the pause lock, get_stats the stats lock and the stats,
\* _start_control the simulation thread
Needs(request) ==
    CASE request \in {"PAUSE", "RESUME"} -> {"pause_lock"}
      [] request = "STATS" -> {"stats_lock", "stats"}
      [] request = "START" -> {"simulation_thread"}
      [] OTHER -> {}

\* the worker right after control_thread.start() (line 26)
ConstructInit ==
    /\ ControllerInit
    /\ heap = <<>>
    /\ StatsIdle
    /\ ModelIdle
    /\ stats = [total_messages |-> 0, total_computations |-> 0,
                last_message |-> NoneMsg, last_computation |-> NoneMsg,
                unread_messages |-> <<>>, unread_computations |-> <<>>]
    /\ pause_lock = [owner |-> "none", count |-> 0]
    /\ _stop = FALSE
    /\ done = FALSE
    /\ simulation_thread = None
    /\ _input_queue = <<>>
    /\ _output_queue = <<>>
    /\ _message_event = FALSE
    /\ control_thread = "running"
    /\ acall = [op |-> "__init__", args |-> <<>>, status |-> "pending",
                exc |-> "none", value |-> NoneMsg]
    /\ sends = <<>>
    /\ nrequests = 0
    /\ cls = "SampleAlgorithm"
    /\ _DCOP_view = None
    /\ self_running = FALSE
    /\ rpc = "133"
    /\ ncycles = 0
    /\ cycle_log = <<>>
    /\ _simulator_input_queue = <<>>
    /\ _simulator_output_queue = <<>>
    /\ _simulator_message_event = FALSE
    /\ _model_input_queue = <<>>
    /\ _model_output_queue = <<>>
    /\ _model_message_event = FALSE
    /\ model_request_thread = "absent"
    /\ nmodel_requests = 0
    /\ ipc = "28"

\* the next assignments of the constructor
Construct ==
    /\ ipc # "done"
    /\ ipc' = InitLines[(CHOOSE k \in 1..Len(InitLines) : InitLines[k] = ipc) + 1]
    /\ IF ipc = "28" THEN
           \* pydyndsProcess.py:28
           /\ pause_lock' = [owner |-> "none", count |-> 0]
           /\ UNCHANGED <<_DCOP_view, self_running, done, _stop, stats,
                          model_request_thread, simulation_thread, acall>>
       ELSE IF ipc = "43" THEN
           \* Algorithm.py:43-56: the view, the queues and events given, and
           \* the flags running, done and _stop
           /\ _DCOP_view' = "dcop0"
           /\ self_running' = FALSE
           /\ done' = FALSE
           /\ _stop' = FALSE
           /\ UNCHANGED <<pause_lock, stats, model_request_thread,
                          simulation_thread, acall>>
       ELSE IF ipc = "61" THEN
           \* Algorithm.py:61-62
           /\ stats' = [total_messages |-> 0, total_computations |-> 0,
                        last_message |-> NoneMsg, last_computation |-> NoneMsg,
                        unread_messages |-> <<>>, unread_computations |-> <<>>]
           /\ UNCHANGED <<pause_lock, _DCOP_view, self_running, done, _stop,
                          model_request_thread, simulation_thread, acall>>
       ELSE IF ipc = "65" THEN
           \* Algorithm.py:65-66
           /\ model_request_thread' = "running"
           /\ UNCHANGED <<pause_lock, _DCOP_view, self_running, done, _stop,
                          stats, simulation_thread, acall>>
       ELSE IF ipc = "68" THEN
           \* Algorithm.py:68, after which __init__ returns
           /\ simulation_thread' = "created"
           /\ acall' = [acall EXCEPT !.status = "returned"]
           /\ UNCHANGED <<pause_lock, _DCOP_view, self_running, done, _stop,
                          stats, model_request_thread>>
       ELSE
           \* Algorithm.py:58: stats_lock, which StatsSpec looks at
           UNCHANGED <<pause_lock, _DCOP_view, self_running, done, _stop,
                       stats, model_request_thread, simulation_thread, acall>>
    /\ UNCHANGED <<_input_queue, _output_queue, _message_event, control_thread,
                   sends, nrequests>>
    /\ UNCHANGED <<cls, rpc, ncycles, cycle_log, _simulator_input_queue,
                   _simulator_output_queue, _simulator_message_event,
                   _model_input_queue, _model_output_queue,
                   _model_message_event, nmodel_requests>>
    /\ UNCHANGED <<ctlVars, memVars, stVars, mdVars>>

\* One iteration of the loop of _control that finds a request whose handling
\* reads an attribute that does not exist yet: the AttributeError is caught
\* at lines 62-63 and the loop goes on with the next request.
ControlAttributeError ==
    /\ control_thread = "running"
    /\ ~_stop
    /\ _message_event
    /\ _input_queue # <<>>
    /\ ~(Needs(Head(_input_queue)) \subseteq Attributes(ipc))
    /\ _input_queue' = Tail(_input_queue)
    /\ UNCHANGED <<stats, pause_lock, _stop, done, simulation_thread,
                   _output_queue, _message_event, control_thread, acall, sends,
                   nrequests>>
    /\ UNCHANGED <<ctlVars, memVars, stVars, mdVars, runVars, initVars>>

\* One iteration of the loop of _control that finds a request whose handling
\* finds every attribute it reads
ControlHandles ==
    /\ _input_queue # <<>>
    /\ Needs(Head(_input_queue)) \subseteq Attributes(ipc)
    /\ _control

ConstructNext ==
    \/ Construct
    \/ \E request \in RunRequests : SendRequest(request)
    \/ ControlHandles
    \/ ControlAttributeError

ConstructSpec == ConstructInit /\ [][ConstructNext]_vars

\* the control loop takes a PAUSE, START or STATS request in this step while
\* the constructor has not returned
DequeuedDuringInit ==
    /\ ipc # "done"
    /\ _input_queue # <<>>
    /\ Head(_input_queue) \in {"PAUSE", "START", "STATS"}
    /\ _input_queue' = Tail(_input_queue)

\* C37: a control request that arrives while the worker is being constructed
\* is not lost: under every interleaving of the constructor and the control
\* loop, each PAUSE, START or STATS request the loop dequeues is handled and
\* answered (a reply is put on the output queue), not dropped without reply.
C37_NoRequestLostDuringInit ==
    [][DequeuedDuringInit => Len(_output_queue') = Len(_output_queue) + 1]_vars

====
